---------------------------- MODULE Spec2Model ----------------------------
(***************************************************************************)
(* Keplerian astrometric model evaluator of the SSW2022 orbit-fit          *)
(* notebook (SSW2022_Jupyter_Orbit_Fit_Challenge.ipynb).                   *)
(*                                                                         *)
(* Real numbers are fixed-point integers: a real x is the integer          *)
(* x * Scale, and every product or quotient is rounded down to the grid,   *)
(* which plays the part of floating-point rounding.  Angles are radians    *)
(* times Scale.                                                            *)
(*                                                                         *)
(* The Gaia archive and orvara notebooks (SSW2022_Jupyter_GaiaHandsOn,     *)
(* SSW2022_Jupyter_Orvara_Projects) are modelled as runs of their code     *)
(* cells, statement by statement, against the archive's user tables and    *)
(* the files of the output directory; plot_epoch_phot of the epoch         *)
(* photometry notebook as the loop over its three panels.                  *)
(***************************************************************************)
EXTENDS Integers, Sequences, FiniteSets, TLC

VARIABLES kepler, thiele, pred, mass, fit, prof, pipe, nb, plot

vars == <<kepler, thiele, pred, mass, fit, prof, pipe, nb, plot>>

\* A component no operation of the specification at hand touches.
Idle == [status |-> "idle"]

-----------------------------------------------------------------------------
(* Fixed-point arithmetic                                                  *)

\* Grid resolution: 1.0 is Scale.
Scale == 1000

\* Number of mean anomalies sampled in [0, 2 pi).
NumM == 16

\* Number of eccentricity steps sampled in [0, 0.99].
NumE == 10

\* Small iteration budgets tried besides the default max_iter.
MaxBudget == 3

\* Number of candidate parameter vectors.
NumParams == 6

\* Number of distinct observations to build tables from.
NumObs == 3

\* Longest observation table.
MaxObs == 3

\* Iteration budget of the nonlinear optimizer.
MaxOptIter == 3

\* Number of fit calls in a row (the first call and its retries).
MaxCalls == 2

\* Longest sequence of values a profile is computed at.
MaxProfile == 2

\* Sessions the archive ends during one run of the notebook.
MaxLogouts == 1

\* Longest table of epoch photometry.
MaxRows == 3

\* Longest list of colours handed to plot_epoch_phot.
MaxColours == 4

Abs(x) == IF x < 0 THEN -x ELSE x

\* Quotient rounded down, for a divisor of either sign.
FloorDiv(a, b) == IF b > 0 THEN a \div b ELSE (-a) \div (-b)

RECURSIVE IsqrtFrom(_, _)
IsqrtFrom(n, r) == IF (r + 1) * (r + 1) > n THEN r ELSE IsqrtFrom(n, r + 1)

RECURSIVE IsqrtBisect(_, _, _)
IsqrtBisect(n, lo, hi) ==
    IF hi - lo <= 1 THEN lo
    ELSE LET mid == (lo + hi) \div 2
         IN  IF mid * mid <= n THEN IsqrtBisect(n, mid, hi)
                               ELSE IsqrtBisect(n, lo, mid)

\* Largest r with r * r <= n (n >= 0); 46340 is the largest root of a 32-bit integer.
Isqrt(n) ==
    IF n < 4 THEN IsqrtFrom(n, 0)
    ELSE IsqrtBisect(n, 1, IF n < 46340 THEN n ELSE 46340)

HalfPi == (355 * Scale) \div 226
Pi == 2 * HalfPi
TwoPi == 4 * HalfPi

\* sin on [0, pi/2]: x - x^3/3! + x^5/5! - x^7/7! in Horner form.
SinPoly(x, x2) ==
    (x * (Scale - (((x2 * (Scale - (((x2 * (Scale - (x2 \div 42))) \div Scale) \div 20)))
                    \div Scale) \div 6))) \div Scale

SinQ(x) == SinPoly(x, (x * x) \div Scale)

\* np.sin, by reduction to the first quadrant.
SinReduced(r) ==
    IF r <= Pi
    THEN SinQ(IF r <= HalfPi THEN r ELSE Pi - r)
    ELSE -SinQ(IF r <= Pi + HalfPi THEN r - Pi ELSE TwoPi - r)

Sin(x) == SinReduced(x % TwoPi)

\* np.cos
Cos(x) == Sin(x + HalfPi)

-----------------------------------------------------------------------------
(* Kepler's equation  M = E - e sin E                                      *)

\* Absolute convergence tolerance on |E_{n+1} - E_n|, in grid units.
tol == 5

\* Default Newton-Raphson iteration budget.
max_iter == 50

\* Largest eccentricity sampled: 0.99.
EMax == (99 * Scale) \div 100

MGrid == { (k * TwoPi) \div NumM : k \in 0..(NumM - 1) }

EGrid == { (k * EMax) \div NumE : k \in 0..NumE }

Budgets == (1..MaxBudget) \cup {max_iter}

\* M + num / den, the quotient rounded to the grid.
GuessFrom(M, num, den) == IF den = 0 THEN M ELSE M + FloorDiv(num, den)

\* Slip: the factor e of the numerator is dropped.
InitialGuessNoE(M, e) ==
    GuessFrom(M, Scale * Sin(M), Isqrt(Scale * Scale - 2 * e * Cos(M) + e * e))

\* E_0 = M + (e sin M) / sqrt(1 - 2 e cos M + e^2)
InitialGuess(M, e) ==
    GuessFrom(M, e * Sin(M), Isqrt(Scale * Scale - 2 * e * Cos(M) + e * e))

\* Slip: cos written for sin.
KeplerFCos(M, E, e) == M - E + FloorDiv(e * Cos(E), Scale)

\* f = M - E + e sin E
KeplerF(M, E, e) == M - E + FloorDiv(e * Sin(E), Scale)

\* f' = e cos E - 1
KeplerFPrime(E, e) == FloorDiv(e * Cos(E), Scale) - Scale

\* E_{n+1} = E_n - f / f'.  f' = 0 (possible only for e >= 1) makes the step
\* infinite in floating point: a step that is never below the tolerance.
NewtonStep(E, f, fprime) ==
    IF fprime = 0 THEN E - TwoPi ELSE E - FloorDiv(f * Scale, fprime)

NewtonUpdate(M, E, e) == NewtonStep(E, KeplerF(M, E, e), KeplerFPrime(E, e))

\* The call solve_kepler(M, e) about to start its loop.
KeplerCall(M, e, budget) ==
    [M |-> M, e |-> e, max_iter |-> budget, E |-> InitialGuess(M, e),
     n |-> 0, step |-> 0, status |-> "iterating", ret |-> <<>>]

KeplerInit ==
    /\ kepler \in { KeplerCall(M, e, b) : M \in MGrid, e \in EGrid, b \in Budgets }
    /\ thiele = Idle
    /\ pred = Idle
    /\ mass = Idle
    /\ fit = Idle
    /\ prof = Idle
    /\ pipe = Idle
    /\ nb = Idle
    /\ plot = Idle

\* The call after the update to En: converged when |En - E| < tol.
AfterUpdate(k, En) ==
    [k EXCEPT !.E = En, !.n = @ + 1, !.step = En - k.E,
              !.status = IF Abs(En - k.E) < tol THEN "converged" ELSE "iterating",
              !.ret = IF Abs(En - k.E) < tol THEN <<En>> ELSE <<>>]

\* Slip: the loop runs "until convergence" with no iteration cap.
SolveKeplerIterateUncapped ==
    /\ kepler.status = "iterating"
    /\ kepler' = AfterUpdate(kepler, NewtonUpdate(kepler.M, kepler.E, kepler.e))
    /\ UNCHANGED <<thiele, pred, mass, fit, prof, pipe, nb, plot>>

\* One pass of the loop body: update, then the convergence test.
SolveKeplerIterate ==
    /\ kepler.status = "iterating"
    /\ kepler.n < kepler.max_iter
    /\ kepler' = AfterUpdate(kepler, NewtonUpdate(kepler.M, kepler.E, kepler.e))
    /\ UNCHANGED <<thiele, pred, mass, fit, prof, pipe, nb, plot>>

\* Slip: the last estimate is returned when the budget is spent.
SolveKeplerGiveUpStale ==
    /\ kepler.status = "iterating"
    /\ kepler.n >= kepler.max_iter
    /\ kepler' = [kepler EXCEPT !.status = "converged", !.ret = <<kepler.E>>]
    /\ UNCHANGED <<thiele, pred, mass, fit, prof, pipe, nb, plot>>

\* The budget is spent without convergence: the numerical failure is raised.
SolveKeplerGiveUp ==
    /\ kepler.status = "iterating"
    /\ kepler.n >= kepler.max_iter
    /\ kepler' = [kepler EXCEPT !.status = "failed", !.ret = <<>>]
    /\ UNCHANGED <<thiele, pred, mass, fit, prof, pipe, nb, plot>>

KeplerNext == SolveKeplerIterate \/ SolveKeplerGiveUp

SpecKepler == KeplerInit /\ [][KeplerNext]_vars /\ WF_vars(KeplerNext)

\* solve_kepler as one call: the loop above run to its end.  The result is
\* <<E>> when converged and <<>> when the numerical failure is raised.
RECURSIVE KeplerLoop(_, _, _, _, _)
RECURSIVE KeplerTest(_, _, _, _, _, _)
KeplerLoop(M, e, E, n, budget) ==
    IF n >= budget THEN <<>>
    ELSE KeplerTest(M, e, E, NewtonUpdate(M, E, e), n, budget)

KeplerTest(M, e, E, En, n, budget) ==
    IF Abs(En - E) < tol THEN <<En>> ELSE KeplerLoop(M, e, En, n + 1, budget)

solve_kepler(M, e) == KeplerLoop(M, e, InitialGuess(M, e), 0, max_iter)

-----------------------------------------------------------------------------
(* Thiele-Innes position                                                   *)

\* Slip: X = cos E + e.
ThieleInnesPositionPlus(E, e) ==
    [X |-> Cos(E) + e,
     Y |-> IF e * e > Scale * Scale THEN 0
           ELSE FloorDiv(Sin(E) * Isqrt(Scale * Scale - e * e), Scale),
     defined |-> e * e <= Scale * Scale]

WithOk(r) == [X |-> r.X, Y |-> r.Y, defined |-> r.defined, ok |-> r.defined]

\* X = cos E - e,  Y = sin E sqrt(1 - e^2); the square root of a negative
\* number is not a real ("defined" is FALSE, a NaN in floating point).
ThieleInnesPosition(E, e) ==
    [X |-> Cos(E) - e,
     Y |-> IF e * e > Scale * Scale THEN 0
           ELSE FloorDiv(Sin(E) * Isqrt(Scale * Scale - e * e), Scale),
     defined |-> e * e <= Scale * Scale]

ThieleInit ==
    /\ thiele \in { [E |-> E, e |-> e, status |-> "called", X |-> 0, Y |-> 0,
                     defined |-> FALSE] : E \in MGrid \cup {0, Pi}, e \in EGrid }
    /\ kepler = Idle
    /\ pred = Idle
    /\ mass = Idle
    /\ fit = Idle
    /\ prof = Idle
    /\ pipe = Idle
    /\ nb = Idle
    /\ plot = Idle

ThieleApply ==
    /\ thiele.status = "called"
    /\ thiele' = [E |-> thiele.E, e |-> thiele.e, status |-> "returned"]
                  @@ ThieleInnesPosition(thiele.E, thiele.e)
    /\ UNCHANGED <<kepler, pred, mass, fit, prof, pipe, nb, plot>>

ThieleNext == ThieleApply

SpecThiele == ThieleInit /\ [][ThieleNext]_vars

\* C10: for every e in [0, 1) the position is defined, it is (1 - e, 0) at
\* E = 0 (periastron) and (-1 - e, 0) at E = pi (apastron).
C10_ThieleBoundary ==
    thiele.status = "returned" =>
        /\ thiele.defined
        /\ thiele.E = 0 => (thiele.X = Scale - thiele.e /\ thiele.Y = 0)
        /\ thiele.E = Pi => (thiele.X = -Scale - thiele.e /\ thiele.Y = 0)

C10_Witness ==
    /\ thiele.status = "returned"
    /\ thiele.E = Pi
    /\ thiele.e = EMax
    /\ thiele.X = -Scale - EMax

-----------------------------------------------------------------------------
(* predict: the along-scan position model                                  *)

\* Eccentricities of the candidate vectors: valid ones, curve_fit's default
\* guess 1.0, and values on either side of [0, 1).
ECycle == <<0, (3 * Scale) \div 10, (6 * Scale) \div 10, Scale,
            (9 * Scale) \div 10, -(Scale \div 10), (12 * Scale) \div 10>>

\* The k-th candidate parameter vector.  Positions, proper motions, parallax
\* and the Thiele-Innes constants are whole position units; e, T and t_peri
\* are fixed point.
ParamVec(k) ==
    [alpha0 |-> (k % 3) - 1, delta0 |-> 1 - (k % 2), mu_alpha |-> (k % 4) - 2,
     mu_delta |-> ((k + 1) % 3) - 1, parallax |-> 1 + (k % 2),
     e |-> ECycle[(k % 7) + 1], T |-> (2 + (k % 3)) * Scale,
     t_peri |-> ((k % 4) * Scale) \div 2,
     A |-> 1 + (k % 2), B |-> (k % 3) - 2, F |-> 2 - (k % 4), G |-> (k % 2) - 1]

ParamPool == { ParamVec(k) : k \in 0..(NumParams - 1) }

\* The j-th observation: epoch t (Julian years from 2016.0), scan angle,
\* parallax factor.
ObsT(j) == ((j * 7 * Scale) \div 10) - Scale
ObsTheta(j) == ((j * TwoPi) \div 5) + (Scale \div 4)
ObsParfac(j) == Sin(j * HalfPi + (Scale \div 3))

RECURSIVE SeqsUpTo(_, _)
\* All sequences over S of length 1..n.
SeqsUpTo(S, n) ==
    IF n = 0 THEN {}
    ELSE [1..n -> S] \cup SeqsUpTo(S, n - 1)

ObsTables == SeqsUpTo(1..NumObs, MaxObs)

ModelKinds == {"single_star", "orbital"}

\* Slip: the remainder takes the sign of the phase (fmod), not of 2 pi.
MeanAnomalyTruncated(t, t_peri, T) ==
    IF t >= t_peri THEN FloorDiv(TwoPi * (t - t_peri), T) % TwoPi
    ELSE -((-FloorDiv(TwoPi * (t - t_peri), T)) % TwoPi)

\* M = (2 pi (t - t_peri) / T) mod 2 pi, mod as Python's %
MeanAnomaly(t, t_peri, T) == FloorDiv(TwoPi * (t - t_peri), T) % TwoPi

\* Slip: a scalar angle broadcast over the table.
sinthetaFirst(theta) == [i \in DOMAIN theta |-> Sin(theta[1])]

\* sintheta = np.sin(theta), costheta = np.cos(theta): element by element.
sintheta(theta) == [i \in DOMAIN theta |-> Sin(theta[i])]

costheta(theta) == [i \in DOMAIN theta |-> Cos(theta[i])]

\* Slip: e = 1 let through.
ValidEccentricityClosed(e) == 0 <= e /\ e <= Scale

\* 0 <= e < 1
ValidEccentricity(e) == 0 <= e /\ e < Scale

\* X and Y from a result of solve_kepler; ok is FALSE when it is the failure
\* or the position is undefined.
PositionFrom(Eret, e) ==
    IF Eret = <<>> THEN [X |-> 0, Y |-> 0, defined |-> FALSE, ok |-> FALSE]
    ELSE WithOk(ThieleInnesPosition(Eret[1], e))

\* The orbital displacement at epoch t in units of the Thiele-Innes
\* constants: none in the single-star model.
OrbitPosition(kind, p, t) ==
    IF kind = "orbital"
    THEN PositionFrom(solve_kepler(MeanAnomaly(t, p.t_peri, p.T), p.e), p.e)
    ELSE [X |-> 0, Y |-> 0, defined |-> TRUE, ok |-> TRUE]

\* p = x sin theta + y cos theta + parallax * pf with
\*   x = alpha0 + mu_alpha t + (B X + G Y),  y = delta0 + mu_delta t + (A X + F Y).
\* Slip: a negative parallax is taken as zero.
ProjectParallaxClamped(p, t, sinth, costh, pf, XY) ==
    [ok |-> XY.ok,
     p |-> (p.alpha0 * Scale + p.mu_alpha * t + (p.B * XY.X + p.G * XY.Y)) * sinth
           + (p.delta0 * Scale + p.mu_delta * t + (p.A * XY.X + p.F * XY.Y)) * costh
           + (IF p.parallax < 0 THEN 0 ELSE p.parallax) * pf * Scale]

Project(p, t, sinth, costh, pf, XY) ==
    [ok |-> XY.ok,
     p |-> (p.alpha0 * Scale + p.mu_alpha * t + (p.B * XY.X + p.G * XY.Y)) * sinth
           + (p.delta0 * Scale + p.mu_delta * t + (p.A * XY.X + p.F * XY.Y)) * costh
           + p.parallax * pf * Scale]

\* Slip: sin theta and cos theta exchanged in the projection.
PredictOneSwapped(kind, p, t, sinth, costh, pf) ==
    Project(p, t, costh, sinth, pf, OrbitPosition(kind, p, t))

\* The position Gaia measures at one epoch, in units of 1 / Scale^2:
\*   x = alpha0 + mu_alpha t + (B X + G Y),  y = delta0 + mu_delta t + (A X + F Y),
\*   p = x sin theta + y cos theta + parallax * pf,
\* the orbital terms only in the orbital model.  ok is FALSE when solve_kepler
\* fails or the position is undefined.
PredictOne(kind, p, t, sinth, costh, pf) ==
    Project(p, t, sinth, costh, pf, OrbitPosition(kind, p, t))

\* The call predict(parameters, epochs, scan_angles, parallax_factors).
PredictCall(kind, p, tab) ==
    [kind |-> kind, params |-> p,
     epochs |-> [i \in DOMAIN tab |-> ObsT(tab[i])],
     scan_angles |-> [i \in DOMAIN tab |-> ObsTheta(tab[i])],
     parallax_factors |-> [i \in DOMAIN tab |-> ObsParfac(tab[i])],
     i |-> 1, out |-> <<>>, evalE |-> {}, status |-> "called"]

PredictInit ==
    /\ pred \in { PredictCall(kind, p, tab) :
                    kind \in ModelKinds, p \in ParamPool, tab \in ObsTables }
    /\ kepler = Idle
    /\ thiele = Idle
    /\ mass = Idle
    /\ fit = Idle
    /\ prof = Idle
    /\ pipe = Idle
    /\ nb = Idle
    /\ plot = Idle

\* An orbital parameter vector with e outside [0, 1) is rejected before the
\* model is evaluated.
PredictReject ==
    /\ pred.status = "called"
    /\ pred.kind = "orbital"
    /\ ~ValidEccentricity(pred.params.e)
    /\ pred' = [pred EXCEPT !.status = "rejected"]
    /\ UNCHANGED <<kepler, thiele, mass, fit, prof, pipe, nb, plot>>

\* The call after the prediction r for observation i.
AfterElement(q, r) ==
    [q EXCEPT
       !.i = @ + 1,
       !.out = IF r.ok THEN Append(@, r.p) ELSE <<>>,
       !.evalE = IF q.kind = "orbital" THEN @ \cup {q.params.e} ELSE @,
       !.status = IF ~r.ok THEN "failed"
                  ELSE IF q.i = Len(q.epochs) THEN "done"
                  ELSE "running"]

\* The prediction for observation i, appended to the output.
PredictElement ==
    /\ pred.status \in {"called", "running"}
    /\ pred.kind = "orbital" => ValidEccentricity(pred.params.e)
    /\ pred.i <= Len(pred.epochs)
    /\ pred' = AfterElement(pred,
                    PredictOne(pred.kind, pred.params, pred.epochs[pred.i],
                               sintheta(pred.scan_angles)[pred.i],
                               costheta(pred.scan_angles)[pred.i],
                               pred.parallax_factors[pred.i]))
    /\ UNCHANGED <<kepler, thiele, mass, fit, prof, pipe, nb, plot>>

PredictNext == PredictReject \/ PredictElement

SpecPredict == PredictInit /\ [][PredictNext]_vars

\* C8: predict returns one position per observation in the order of the
\* input: the output grows by one element per observation, and element i is
\* the model at epoch i, scan angle i and parallax factor i.
C8_OnePerObservation ==
    /\ pred.status = "running" => Len(pred.out) = pred.i - 1
    /\ pred.status = "done" => Len(pred.out) = Len(pred.epochs)
    /\ pred.status \in {"running", "done"} =>
          \A i \in 1..Len(pred.out) :
              pred.out[i] = PredictOne(pred.kind, pred.params, pred.epochs[i],
                                       Sin(pred.scan_angles[i]), Cos(pred.scan_angles[i]),
                                       pred.parallax_factors[i]).p

C8_Witness ==
    /\ pred.status = "done"
    /\ Len(pred.out) = MaxObs
    /\ pred.kind = "orbital"
    /\ pred.scan_angles[1] # pred.scan_angles[2]
    /\ pred.out[1] # pred.out[2]

\* X_i and Y_i of observation i under parameter vector p.
OrbitXY(p, t) ==
    ThieleInnesPosition(solve_kepler(MeanAnomaly(t, p.t_peri, p.T), p.e)[1], p.e)

\* C9: each returned position equals the reference formula
\*   (alpha0 + mu_alpha t) sin theta + (delta0 + mu_delta t) cos theta + parallax pf
\* plus, in the orbital model only,
\*   (B X + G Y) sin theta + (A X + F Y) cos theta.
C9_ReferenceFormula ==
    pred.status = "done" =>
        \A i \in 1..Len(pred.out) :
            LET p == pred.params
                t == pred.epochs[i]
                s == Sin(pred.scan_angles[i])
                c == Cos(pred.scan_angles[i])
                single == p.alpha0 * Scale * s + p.mu_alpha * t * s
                          + p.delta0 * Scale * c + p.mu_delta * t * c
                          + p.parallax * pred.parallax_factors[i] * Scale
                XY == OrbitXY(p, t)
                orbit == p.B * XY.X * s + p.G * XY.Y * s
                         + p.A * XY.X * c + p.F * XY.Y * c
            IN  pred.out[i] = IF pred.kind = "orbital" THEN single + orbit ELSE single

C9_Witness ==
    /\ pred.status = "done"
    /\ pred.kind = "orbital"
    /\ pred.params.e > 0
    /\ Len(pred.out) > 1
    /\ \E i \in 1..Len(pred.out) :
          /\ Sin(pred.scan_angles[i]) # Cos(pred.scan_angles[i])
          /\ OrbitXY(pred.params, pred.epochs[i]).Y # 0

-----------------------------------------------------------------------------
(* fit: chi-squared minimisation                                           *)

\* The synthetic measurements: the orbital model at ParamVec(1) plus noise,
\* with their uncertainties (units of 1 / Scale^2, as predict's output).
ObsSigw(j) == ((1 + (j % 2)) * Scale * Scale) \div 10

ObsWobs(j) ==
    PredictOne("orbital", ParamVec(1), ObsT(j), Sin(ObsTheta(j)), Cos(ObsTheta(j)),
               ObsParfac(j)).p
    + ((j % 3) - 1) * ((Scale * Scale) \div 20)

\* The observation tables fitted: all observations, in either order.
FitTables ==
    LET n == IF NumObs < MaxObs THEN NumObs ELSE MaxObs
    IN  { [i \in 1..n |-> i], [i \in 1..n |-> n + 1 - i] }

RECURSIVE SumSeq(_)
SumSeq(q) == IF q = <<>> THEN 0 ELSE Head(q) + SumSeq(Tail(q))

\* The model at parameter vector p over a table, its residuals and
\*   chi^2 = sum_i (p_measured - p_predicted)^2 / sigma_i^2
\* in hundredths (each residual is taken to a tenth of sigma_i).
Square(z) == z * z

\* Slip: sigma taken by position in the table, not with its observation.
ChiSquaredUnpaired(tab, res) ==
    SumSeq([i \in DOMAIN tab |-> Square(FloorDiv(res[i] * 10, ObsSigw(i)))])

ChiSquared(tab, res) ==
    SumSeq([i \in DOMAIN tab |-> Square(FloorDiv(res[i] * 10, ObsSigw(tab[i])))])

Residuals(tab, pr) ==
    [ok |-> \A i \in DOMAIN tab : pr[i].ok,
     residuals |-> [i \in DOMAIN tab |-> ObsWobs(tab[i]) - pr[i].p]]

WithChiSquared(tab, r) ==
    [ok |-> r.ok, residuals |-> r.residuals, chi2 |-> ChiSquared(tab, r.residuals)]

PredictTable(kind, p, tab, theta) ==
    [i \in DOMAIN tab |->
       PredictOne(kind, p, ObsT(tab[i]), sintheta(theta)[i], costheta(theta)[i],
                  ObsParfac(tab[i]))]

EvaluateModel(kind, p, tab) ==
    WithChiSquared(tab,
        Residuals(tab, PredictTable(kind, p, tab, [i \in DOMAIN tab |-> ObsTheta(tab[i])])))

\* evalE and rejE record the eccentricities the model was evaluated with and
\* those turned away before evaluation.

\* A parameter held fixed during the optimisation (eccentricity or period),
\* or none.
Fixed(name, value) == <<[name |-> name, value |-> value]>>

FixedChoices == {<<>>, Fixed("e", (6 * Scale) \div 10), Fixed("e", Scale)}

\* Slip: the held value is not imposed on the vectors the optimizer works on.
WithFixedIgnored(p, fixed) == p

WithFixed(p, fixed) ==
    IF fixed = <<>> THEN p ELSE [p EXCEPT ![fixed[1].name] = fixed[1].value]

\* The vectors the optimizer may propose.
Candidates(fixed) == { WithFixed(p, fixed) : p \in ParamPool }

\* The fitted parameters: five for the sky path, seven more for the orbit.
SkyPathParams == {"alpha0", "delta0", "mu_alpha", "mu_delta", "parallax"}

OrbitParams == {"e", "T", "t_peri", "A", "B", "F", "G"}

FittedParams(kind) ==
    IF kind = "orbital" THEN SkyPathParams \cup OrbitParams ELSE SkyPathParams

\* Number of position measurements of the data set.
NumMeasurements == 48

\* Slip: only the orbit's own parameters are counted in the orbital model.
DegreesOfFreedomOrbitOnly(kind, n) ==
    n - Cardinality(IF kind = "orbital" THEN OrbitParams ELSE SkyPathParams)

\* Degrees of freedom: the number of position measurements minus the number
\* of fitted parameters.
DegreesOfFreedom(kind, n) == n - Cardinality(FittedParams(kind))

\* The call fit(observations, model_kind, initial_guess).
FitCall(kind, tab, fixed, guess, calls, prev) ==
    [kind |-> kind, tab |-> tab, fixed |-> fixed, guess |-> guess,
     cur |-> WithFixed(guess, fixed), chi2 |-> 0, iter |-> 0, evalE |-> {}, rejE |-> {},
     calls |-> calls, prev |-> prev, status |-> "called", result |-> <<>>,
     dof |-> <<>>]

FitInit ==
    /\ fit \in { FitCall(kind, tab, fixed, g, 1, "none") :
                   kind \in ModelKinds, tab \in FitTables, fixed \in FixedChoices,
                   g \in ParamPool }
    /\ kepler = Idle
    /\ thiele = Idle
    /\ pred = Idle
    /\ mass = Idle
    /\ prof = Idle
    /\ pipe = Idle
    /\ nb = Idle
    /\ plot = Idle

FitFailure(cause, p, chi2) ==
    <<[kind |-> "fit_failure", cause |-> cause, params |-> p, chi2 |-> chi2,
       residuals |-> <<>>]>>

\* ev is no better than chi2 (a failed evaluation never is).
NotBetter(ev, chi2) == ev.ok => ev.chi2 >= chi2

FitResult(p, ev) ==
    <<[kind |-> "FitResult", cause |-> "none", params |-> p, chi2 |-> ev.chi2,
       residuals |-> ev.residuals]>>

\* No valid candidate has a smaller chi^2: the optimizer's convergence test.
IsMinimum(kind, tab, fixed, chi2) ==
    \A c \in Candidates(fixed) :
        (kind = "orbital" => ValidEccentricity(c.e)) =>
            NotBetter(EvaluateModel(kind, c, tab), chi2)

\* The least-squares solution among the candidates.
BestCandidate(kind, tab, fixed) ==
    CHOOSE c \in Candidates(fixed) :
        IsMinimum(kind, tab, fixed, EvaluateModel(kind, c, tab).chi2)

WithResult(f, p, r) ==
    [f EXCEPT !.cur = p, !.chi2 = r[1].chi2, !.status = "success", !.result = r,
              !.dof = <<DegreesOfFreedom(f.kind, Len(f.tab))>>]

\* The fit ends successfully at vector p.
Succeeded(f, p) == WithResult(f, p, FitResult(p, EvaluateModel(f.kind, p, f.tab)))

\* Single-star model: linear in its five parameters, solved directly.
FitLinearSolve ==
    /\ fit.status = "called"
    /\ fit.kind = "single_star"
    /\ fit' = Succeeded(fit, BestCandidate(fit.kind, fit.tab, fit.fixed))
    /\ UNCHANGED <<kepler, thiele, pred, mass, prof, pipe, nb, plot>>

\* Orbital model: an initial guess with e outside [0, 1) is rejected.
FitRejectGuess ==
    /\ fit.status = "called"
    /\ fit.kind = "orbital"
    /\ ~ValidEccentricity(fit.cur.e)
    /\ fit' = [fit EXCEPT !.status = "failed", !.rejE = @ \cup {fit.cur.e},
                          !.result = FitFailure("invalid_eccentricity", fit.cur, 0)]
    /\ UNCHANGED <<kepler, thiele, pred, mass, prof, pipe, nb, plot>>

\* The fit after the model was evaluated (ev) at the initial guess.
Started(f, ev) ==
    [f EXCEPT
       !.evalE = @ \cup {f.cur.e},
       !.chi2 = ev.chi2,
       !.status = IF ev.ok THEN "running" ELSE "failed",
       !.result = IF ev.ok THEN <<>> ELSE FitFailure("numerical_failure", f.cur, 0)]

\* The fit after the model was evaluated (ev) at the proposed vector c.
Proposed(f, c, ev) ==
    [f EXCEPT
       !.iter = @ + 1,
       !.evalE = @ \cup {c.e},
       !.cur = IF ev.ok /\ ev.chi2 < f.chi2 THEN c ELSE @,
       !.chi2 = IF ev.ok /\ ev.chi2 < f.chi2 THEN ev.chi2 ELSE @]

\* Orbital model: the optimizer starts from the initial guess.
FitStart ==
    /\ fit.status = "called"
    /\ fit.kind = "orbital"
    /\ ValidEccentricity(fit.cur.e)
    /\ fit' = Started(fit, EvaluateModel(fit.kind, fit.cur, fit.tab))
    /\ UNCHANGED <<kepler, thiele, pred, mass, prof, pipe, nb, plot>>

\* One optimizer step: a proposed vector is evaluated, unless its e is
\* outside [0, 1), and kept when it lowers chi^2.
FitPropose ==
    /\ fit.status = "running"
    /\ fit.iter < MaxOptIter
    /\ \E c \in Candidates(fit.fixed) :
          IF ~ValidEccentricity(c.e)
          THEN fit' = [fit EXCEPT !.iter = @ + 1, !.rejE = @ \cup {c.e}]
          ELSE fit' = Proposed(fit, c, EvaluateModel(fit.kind, c, fit.tab))
    /\ UNCHANGED <<kepler, thiele, pred, mass, prof, pipe, nb, plot>>

\* The eccentricities of the vectors the convergence test evaluates.
TestedE(f) ==
    { c.e : c \in { d \in Candidates(f.fixed) : ValidEccentricity(d.e) } }

\* The optimizer reports convergence: the fit succeeds.
FitConverge ==
    /\ fit.status = "running"
    /\ IsMinimum(fit.kind, fit.tab, fit.fixed, fit.chi2)
    /\ fit' = [Succeeded(fit, fit.cur) EXCEPT !.evalE = @ \cup TestedE(fit)]
    /\ UNCHANGED <<kepler, thiele, pred, mass, prof, pipe, nb, plot>>

\* Slip: the optimizer's last state is returned as a fit.
FitGiveUpSilent ==
    /\ fit.status = "running"
    /\ fit.iter >= MaxOptIter
    /\ ~IsMinimum(fit.kind, fit.tab, fit.fixed, fit.chi2)
    /\ fit' = [Succeeded(fit, fit.cur) EXCEPT !.evalE = @ \cup TestedE(fit)]
    /\ UNCHANGED <<kepler, thiele, pred, mass, prof, pipe, nb, plot>>

\* The optimizer spent its budget without converging: the fit fails and hands
\* back the last parameter state.
FitGiveUp ==
    /\ fit.status = "running"
    /\ fit.iter >= MaxOptIter
    /\ ~IsMinimum(fit.kind, fit.tab, fit.fixed, fit.chi2)
    /\ fit' = [fit EXCEPT !.status = "failed", !.evalE = @ \cup TestedE(fit),
                          !.result = FitFailure("no_convergence", fit.cur, fit.chi2)]
    /\ UNCHANGED <<kepler, thiele, pred, mass, prof, pipe, nb, plot>>

\* The caller retries a failed fit from a different initial guess.
FitRetry ==
    /\ fit.status = "failed"
    /\ fit.calls < MaxCalls
    /\ \E g \in ParamPool :
          /\ g # fit.guess
          /\ fit' = FitCall(fit.kind, fit.tab, fit.fixed, g, fit.calls + 1,
                            fit.result[1].cause)
    /\ UNCHANGED <<kepler, thiele, pred, mass, prof, pipe, nb, plot>>

FitNext ==
    \/ FitLinearSolve
    \/ FitRejectGuess
    \/ FitStart
    \/ FitPropose
    \/ FitConverge
    \/ FitGiveUp
    \/ FitRetry

SpecFit == FitInit /\ [][FitNext]_vars

\* The table tab with its observations in the order q.
Permuted(tab, q) == [i \in DOMAIN tab |-> tab[q[i]]]

\* Fits with every parameter free, of the table in either order.
OrderInit ==
    /\ fit \in { FitCall(kind, tab, <<>>, g, 1, "none") :
                   kind \in ModelKinds, tab \in FitTables, g \in ParamPool }
    /\ kepler = Idle
    /\ thiele = Idle
    /\ pred = Idle
    /\ mass = Idle
    /\ prof = Idle
    /\ pipe = Idle
    /\ nb = Idle
    /\ plot = Idle

SpecOrder == OrderInit /\ [][FitNext]_vars

\* C17: chi^2 at the current parameter vector is the same for every order of
\* the observations (each keeping its own t, theta, parallax factor,
\* measurement and sigma), and the minimum found is the minimum for the
\* table in reverse order too.
C17_OrderIrrelevant ==
    /\ fit.status \in {"running", "success"} =>
          \A q \in Permutations(DOMAIN fit.tab) :
              EvaluateModel(fit.kind, fit.cur, Permuted(fit.tab, q)).chi2 = fit.chi2
    /\ fit.status = "success" =>
          IsMinimum(fit.kind,
                    Permuted(fit.tab, [i \in DOMAIN fit.tab |-> Len(fit.tab) + 1 - i]),
                    fit.fixed, fit.chi2)

C17_Witness ==
    /\ fit.status = "success"
    /\ fit.kind = "orbital"
    /\ fit.tab[1] # 1
    /\ fit.chi2 > 0
    /\ fit.iter > 0

\* The whole data set: NumMeasurements observations.
FullTable == [i \in 1..NumMeasurements |-> ((i - 1) % NumObs) + 1]

FullInit ==
    /\ fit \in { FitCall(kind, tab, <<>>, g, 1, "none") :
                   kind \in ModelKinds, tab \in FitTables,
                   g \in {ParamVec(1), ParamVec(2)} }
               \cup { FitCall(kind, FullTable, <<>>, ParamVec(1), 1, "none") :
                        kind \in ModelKinds }
    /\ kepler = Idle
    /\ thiele = Idle
    /\ pred = Idle
    /\ mass = Idle
    /\ prof = Idle
    /\ pipe = Idle
    /\ nb = Idle
    /\ plot = Idle

\* Fits of short tables and of the whole data set.
SpecFull == FullInit /\ [][FitNext]_vars

\* C11: a successful fit reports the number of observations minus 5 degrees
\* of freedom in the single-star model and minus 12 in the orbital model: 43
\* and 36 for the 48 measurements of the data set.
C11_DegreesOfFreedom ==
    /\ fit.status = "success" =>
          /\ fit.kind = "single_star" => fit.dof = <<Len(fit.tab) - 5>>
          /\ fit.kind = "orbital" => fit.dof = <<Len(fit.tab) - 12>>
          /\ Len(fit.tab) = 48 =>
                fit.dof = IF fit.kind = "single_star" THEN <<43>> ELSE <<36>>
    /\ fit.status # "success" => fit.dof = <<>>

C11_Witness ==
    /\ fit.status = "success"
    /\ fit.kind = "orbital"
    /\ Len(fit.tab) = 48
    /\ fit.dof = <<36>>

\* Direct calls of predict together with fits (free, and with e held fixed as
\* profile_chi2 holds it).
SpecEval == (FitInit \/ PredictInit) /\ [][FitNext \/ PredictNext]_vars

\* C5: every eccentricity the orbital model was evaluated with, in a fit (free
\* or with e held fixed) or in a direct predict call, satisfies 0 <= e < 1.
C5_EccentricityInRange ==
    /\ fit.status # "idle" => \A e \in fit.evalE : 0 <= e /\ e < Scale
    /\ pred.status # "idle" => \A e \in pred.evalE : 0 <= e /\ e < Scale

C5_Witness ==
    /\ fit.status = "running"
    /\ fit.iter = MaxOptIter
    /\ Cardinality(fit.evalE) > 1
    /\ Scale \in fit.rejE
    /\ \E e \in fit.rejE : e < 0

\* C7: a fit whose optimizer did not converge ends "failed" with a
\* fit_failure carrying the last parameter state, a FitResult is returned only
\* by a converged fit, and a failed fit can be retried from another guess.
C7_FitFailureExplicit ==
    /\ fit.status \in {"called", "running"} => fit.result = <<>>
    /\ fit.status = "failed" =>
          /\ fit.result[1].kind = "fit_failure"
          /\ fit.result[1].params = fit.cur
          /\ fit.calls < MaxCalls => ENABLED FitRetry
    /\ fit.status = "success" =>
          /\ fit.result[1].kind = "FitResult"
          /\ fit.result[1].params = fit.cur
          /\ fit.result[1].chi2 = fit.chi2
          /\ IsMinimum(fit.kind, fit.tab, fit.fixed, fit.chi2)

C7_Witness ==
    /\ fit.prev = "no_convergence"
    /\ fit.status = "success"
    /\ fit.kind = "orbital"
    /\ fit.calls = 2

-----------------------------------------------------------------------------
(* Linearity of the model in its linear parameters                         *)

\* The parameters of the linear fit: the five of the sky path and B, G, A, F.
LinearParams == SkyPathParams \cup {"B", "G", "A", "F"}

\* The vector a p + b q in the linear parameters, with e, T and t_peri of p.
Combine(a, p, b, q) ==
    [alpha0 |-> a * p.alpha0 + b * q.alpha0, delta0 |-> a * p.delta0 + b * q.delta0,
     mu_alpha |-> a * p.mu_alpha + b * q.mu_alpha,
     mu_delta |-> a * p.mu_delta + b * q.mu_delta,
     parallax |-> a * p.parallax + b * q.parallax,
     e |-> p.e, T |-> p.T, t_peri |-> p.t_peri,
     A |-> a * p.A + b * q.A, B |-> a * p.B + b * q.B,
     F |-> a * p.F + b * q.F, G |-> a * p.G + b * q.G]

\* The positions predict returns for vector p over table tab.
Predicted(kind, p, tab) ==
    [i \in DOMAIN tab |->
       PredictTable(kind, p, tab, [j \in DOMAIN tab |-> ObsTheta(tab[j])])[i].p]

\* Two vectors p and q sharing e, T and t_peri, and two scalars.
LinearInit ==
    /\ pred \in { [status |-> "called", kind |-> kind, tab |-> tab, a |-> a, b |-> b,
                    p |-> p, q |-> Combine(0, p, 1, q),
                    outP |-> <<>>, outQ |-> <<>>, outC |-> <<>>] :
                   kind \in ModelKinds, tab \in FitTables, a \in {-1, 0, 2},
                   b \in {-1, 1, 2},
                   p \in { x \in ParamPool : ValidEccentricity(x.e) },
                   q \in ParamPool }
    /\ kepler = Idle
    /\ thiele = Idle
    /\ mass = Idle
    /\ fit = Idle
    /\ prof = Idle
    /\ pipe = Idle
    /\ nb = Idle
    /\ plot = Idle

\* predict is called on p, on q and on a p + b q.
LinearApply ==
    /\ pred.status = "called"
    /\ pred' = [pred EXCEPT
                  !.outP = Predicted(pred.kind, pred.p, pred.tab),
                  !.outQ = Predicted(pred.kind, pred.q, pred.tab),
                  !.outC = Predicted(pred.kind,
                                     Combine(pred.a, pred.p, pred.b, pred.q), pred.tab),
                  !.status = "done"]
    /\ UNCHANGED <<kepler, thiele, mass, fit, prof, pipe, nb, plot>>

LinearNext == LinearApply

SpecLinear == LinearInit /\ [][LinearNext]_vars

\* C19: with e, T and t_peri shared, predict(a p + b q) equals
\* a predict(p) + b predict(q) at every observation, in the orbital model
\* (nine linear parameters) and in the single-star model (five).
C19_Linear ==
    pred.status = "done" =>
        \A i \in DOMAIN pred.tab :
            pred.outC[i] = pred.a * pred.outP[i] + pred.b * pred.outQ[i]

C19_Witness ==
    /\ pred.status = "done"
    /\ pred.kind = "orbital"
    /\ pred.a = -1
    /\ pred.b = 2
    /\ pred.p.e > 0
    /\ pred.outP[1] # pred.outQ[1]
    /\ pred.outC[1] # 0
    /\ \E n \in LinearParams : pred.p[n] # pred.q[n]

-----------------------------------------------------------------------------
(* profile_chi2: chi^2 as a function of one parameter held fixed           *)

\* The values a parameter is held at: eccentricities from 0.3 to 0.95,
\* periods from 2 years up.
ProfileValues(name) ==
    IF name = "e"
    THEN {(3 * Scale) \div 10, (95 * Scale) \div 100}
    ELSE {2 * Scale, 5 * Scale}

\* The call profile_chi2(observations, fixed_parameter_name, fixed_values);
\* guess is the starting point of each re-optimisation.
ProfileCall(tab, name, values, guess) ==
    [tab |-> tab, fixed_parameter_name |-> name, fixed_values |-> values,
     guess |-> guess, i |-> 1, out |-> <<>>, moved |-> FALSE, status |-> "called"]

ProfileInit ==
    /\ prof \in { ProfileCall([i \in 1..NumObs |-> i], name, values, g) :
                    name \in {"e", "T"},
                    values \in SeqsUpTo(ProfileValues("e") \cup ProfileValues("T"),
                                        MaxProfile),
                    g \in {ParamVec(1)} }
    /\ \A i \in DOMAIN prof.fixed_values :
          prof.fixed_values[i] \in ProfileValues(prof.fixed_parameter_name)
    /\ fit = Idle
    /\ kepler = Idle
    /\ thiele = Idle
    /\ pred = Idle
    /\ mass = Idle
    /\ pipe = Idle
    /\ nb = Idle
    /\ plot = Idle

\* The re-optimisation for the i-th value starts: a fit of the orbital model
\* with the parameter held at that value.
ProfileBegin ==
    /\ prof.status \in {"called", "running"}
    /\ fit' = FitCall("orbital", prof.tab,
                      Fixed(prof.fixed_parameter_name, prof.fixed_values[prof.i]),
                      prof.guess, 1, "none")
    /\ prof' = [prof EXCEPT !.status = "optimizing"]
    /\ UNCHANGED <<kepler, thiele, pred, mass, pipe, nb, plot>>

\* The profile after the re-optimisation f for the i-th value succeeded.
Collected(q, f) ==
    [q EXCEPT
       !.out = Append(@, <<q.fixed_values[q.i], f.chi2>>),
       !.i = @ + 1,
       !.moved = @ \/ f.cur # WithFixed(f.guess, f.fixed),
       !.status = IF q.i = Len(q.fixed_values) THEN "done" ELSE "running"]

\* The re-optimisation succeeded: its minimized chi^2 is recorded alongside
\* the value.
ProfileCollect ==
    /\ prof.status = "optimizing"
    /\ fit.status = "success"
    /\ prof' = Collected(prof, fit)
    /\ fit' = Idle
    /\ UNCHANGED <<kepler, thiele, pred, mass, pipe, nb, plot>>

\* The re-optimisation failed: the profile fails.
ProfileFail ==
    /\ prof.status = "optimizing"
    /\ fit.status = "failed"
    /\ prof' = [prof EXCEPT !.status = "failed", !.out = <<>>]
    /\ fit' = Idle
    /\ UNCHANGED <<kepler, thiele, pred, mass, pipe, nb, plot>>

\* The steps of the fit behind the current value.
ProfileOptimize ==
    /\ prof.status = "optimizing"
    /\ fit.status # "idle"
    /\ (FitRejectGuess \/ FitStart \/ FitPropose \/ FitConverge \/ FitGiveUp)

ProfileNext ==
    \/ ProfileBegin
    \/ ProfileOptimize
    \/ ProfileCollect
    \/ ProfileFail

SpecProfile == ProfileInit /\ [][ProfileNext]_vars

\* The least chi^2 of the orbital model over the valid candidate vectors with
\* the named parameter held at value v.
ProfiledMinimum(tab, name, v, chi2) ==
    /\ IsMinimum("orbital", tab, Fixed(name, v), chi2)
    /\ \E c \in Candidates(Fixed(name, v)) :
          /\ ValidEccentricity(c.e)
          /\ EvaluateModel("orbital", c, tab).chi2 = chi2

\* C12: the profile holds one (value, min_chi2) pair per element of
\* fixed_values, in their order, each min_chi2 the minimum with the parameter
\* held at that value; during the re-optimisation for the i-th value the
\* vector the optimizer works on carries exactly that value at every step.
C12_ProfilePairs ==
    /\ prof.status \in {"running", "optimizing"} => Len(prof.out) = prof.i - 1
    /\ prof.status = "done" => Len(prof.out) = Len(prof.fixed_values)
    /\ prof.status \in {"running", "optimizing", "done"} =>
          \A i \in 1..Len(prof.out) :
              /\ prof.out[i][1] = prof.fixed_values[i]
              /\ ProfiledMinimum(prof.tab, prof.fixed_parameter_name,
                                 prof.fixed_values[i], prof.out[i][2])
    /\ prof.status = "optimizing" =>
          fit.cur[prof.fixed_parameter_name] = prof.fixed_values[prof.i]

C12_Witness ==
    /\ prof.status = "done"
    /\ Len(prof.out) = MaxProfile
    /\ prof.out[1][1] # prof.out[2][1]
    /\ prof.out[1][2] # prof.out[2][2]
    /\ prof.moved

\* 1 in the units of ChiSquared (hundredths).
ChiOne == 10 * 10

\* Slip: the boundary chi^2 = chi^2_min + 1 counted as inside.
Inside1SigmaClosed(chi2, chi2_min) == chi2 <= chi2_min + ChiOne

\* The 1 sigma confidence interval: chi^2 < chi^2_min + 1.
Inside1Sigma(chi2, chi2_min) == chi2 < chi2_min + ChiOne

\* Profiled chi^2 values around the boundary, relative to the global minimum.
ChiOffsets == {0, ChiOne - 1, ChiOne, ChiOne + 1}

\* A computed profile and the global minimum it is compared with.
IntervalInit ==
    /\ \E g \in {0, (5 * ChiOne) \div 2} :
          prof \in { [status |-> "profiled", out |-> out, global_min_chi2 |-> g,
                      inside |-> <<>>] :
                     out \in SeqsUpTo(ProfileValues("e") \X { g + d : d \in ChiOffsets },
                                      MaxProfile) }
    /\ fit = Idle
    /\ kepler = Idle
    /\ thiele = Idle
    /\ pred = Idle
    /\ mass = Idle
    /\ pipe = Idle
    /\ nb = Idle
    /\ plot = Idle

\* Each profiled value is classified as inside or outside the interval.
IntervalClassify ==
    /\ prof.status = "profiled"
    /\ prof' = [prof EXCEPT
                  !.inside = [i \in DOMAIN prof.out |->
                                Inside1Sigma(prof.out[i][2], prof.global_min_chi2)],
                  !.status = "classified"]
    /\ UNCHANGED <<kepler, thiele, pred, mass, fit, pipe, nb, plot>>

IntervalNext == IntervalClassify

SpecInterval == IntervalInit /\ [][IntervalNext]_vars

\* C13 as stated: a value is inside the interval exactly when
\* min_chi2 <= global_min_chi2 + 1, the boundary included.
C13_InsideClosed ==
    prof.status = "classified" =>
        \A i \in DOMAIN prof.out :
            prof.inside[i] <=> prof.out[i][2] <= prof.global_min_chi2 + ChiOne

\* C13, amended: a value is inside the interval exactly when
\* min_chi2 < global_min_chi2 + 1; a value whose profiled chi^2 equals
\* global_min_chi2 + 1 is outside.
C13_InsideOpen ==
    prof.status = "classified" =>
        \A i \in DOMAIN prof.out :
            /\ prof.inside[i] <=> prof.out[i][2] < prof.global_min_chi2 + ChiOne
            /\ prof.out[i][2] = prof.global_min_chi2 + ChiOne => ~prof.inside[i]

C13_Witness ==
    /\ prof.status = "classified"
    /\ Len(prof.out) = 2
    /\ prof.out[1][2] = prof.global_min_chi2 + ChiOne
    /\ ~prof.inside[1]
    /\ prof.out[2][2] = prof.global_min_chi2 + ChiOne - 1
    /\ prof.inside[2]

-----------------------------------------------------------------------------
(* The profile next to the unconstrained fit                               *)

\* The values the named parameter can take in a fit that leaves it free:
\* those of the candidate vectors and those a profile is computed at.
FreeValues(name) == ProfileValues(name) \cup { p[name] : p \in ParamPool }

\* The vectors the unconstrained fit ranges over: every vector that a fit
\* with the named parameter held at one of its values ranges over.
FreeCandidates(name) ==
    UNION { Candidates(Fixed(name, v)) : v \in FreeValues(name) }

\* No valid vector of the unconstrained fit has a smaller chi^2.
IsFreeMinimum(tab, name, chi2) ==
    \A c \in FreeCandidates(name) :
        ValidEccentricity(c.e) => NotBetter(EvaluateModel("orbital", c, tab), chi2)

\* The orbital model is about to be fitted to tab with all parameters free;
\* the profile of the named parameter comes after.
BestFitCall(tab, name) ==
    [tab |-> tab, fixed_parameter_name |-> name, fixed_values |-> <<>>,
     guess |-> ParamVec(0), i |-> 1, out |-> <<>>, moved |-> FALSE,
     status |-> "fitting", global |-> <<>>]

BestFitInit ==
    /\ prof \in { BestFitCall([i \in 1..NumObs |-> i], name) : name \in {"e", "T"} }
    /\ fit = Idle
    /\ kepler = Idle
    /\ thiele = Idle
    /\ pred = Idle
    /\ mass = Idle
    /\ pipe = Idle
    /\ nb = Idle
    /\ plot = Idle

\* The profile after the unconstrained fit ended at vector c with
\* evaluation ev.
GloballyFitted(q, c, ev) ==
    [q EXCEPT !.global = FitResult(c, ev), !.status = "fitted"]

\* Slip: the unconstrained fit stops at its starting vector.
GlobalFitUnoptimized ==
    /\ prof.status = "fitting"
    /\ prof' = GloballyFitted(prof, prof.guess,
                              EvaluateModel("orbital", prof.guess, prof.tab))
    /\ UNCHANGED <<kepler, thiele, pred, mass, fit, pipe, nb, plot>>

\* The unconstrained fit succeeds: its result is a vector of least chi^2.
GlobalFit ==
    /\ prof.status = "fitting"
    /\ \E c \in FreeCandidates(prof.fixed_parameter_name) :
          LET ev == EvaluateModel("orbital", c, prof.tab)
          IN  /\ ValidEccentricity(c.e)
              /\ ev.ok
              /\ IsFreeMinimum(prof.tab, prof.fixed_parameter_name, ev.chi2)
              /\ prof' = GloballyFitted(prof, c, ev)
    /\ UNCHANGED <<kepler, thiele, pred, mass, fit, pipe, nb, plot>>

\* profile_chi2 is called on the same observations, at distinct values of
\* the parameter: its best-fit value and others.
ProfileAroundBest ==
    /\ prof.status = "fitted"
    /\ \E values \in SeqsUpTo(ProfileValues(prof.fixed_parameter_name)
                                 \cup {prof.global[1].params[prof.fixed_parameter_name]},
                               MaxProfile) :
          /\ \A i, j \in DOMAIN values : values[i] = values[j] => i = j
          /\ prof' = [prof EXCEPT !.fixed_values = values, !.status = "called"]
    /\ UNCHANGED <<kepler, thiele, pred, mass, fit, pipe, nb, plot>>

BestFitNext ==
    \/ GlobalFit
    \/ ProfileAroundBest
    \/ ProfileBegin
    \/ ProfileOptimize
    \/ ProfileCollect
    \/ ProfileFail

SpecBestFit == BestFitInit /\ [][BestFitNext]_vars

-----------------------------------------------------------------------------
(* derive_companion_mass                                                   *)

\* Product and square of fixed-point numbers, rounded to the grid.
Mul(a, b) == FloorDiv(a * b, Scale)

\* Square root of a fixed-point number (x >= 0).
Sqrt(x) == Isqrt(x * Scale)

\* u = (A^2 + B^2 + F^2 + G^2) / 2
HelperU(A, B, F, G) == (Mul(A, A) + Mul(B, B) + Mul(F, F) + Mul(G, G)) \div 2

\* v = B F - A G
HelperV(A, B, F, G) == Mul(B, F) - Mul(A, G)

\* u^2 - v^2, the radicand of the inner square root.
Discriminant(u, v) == Mul(u, u) - Mul(v, v)

\* sma = sqrt(u + sqrt(u^2 - v^2)), in arcseconds (u^2 >= v^2).
SemiMajorAxis(u, v) == Sqrt(u + Sqrt(Discriminant(u, v)))

\* Mass of the primary: 1.17 solar masses.
primary_mass_default == (117 * Scale) \div 100

\* Largest companion mass searched: 4 solar masses.
MassMax == 4 * Scale

\* Ms^3 T^2 >= a1^3 (Mp + Ms)^2: Kepler's third law T^2 = a^3 / Mtot with the
\* primary's orbit a1 = a Ms / Mtot.
MassReached(Ms, a1, Mp, T) ==
    Mul(Mul(Mul(Ms, Ms), Ms), Mul(T, T)) >= Mul(Mul(Mul(a1, a1), a1), Mul(Mp + Ms, Mp + Ms))

RECURSIVE MassBisect(_, _, _, _, _)
\* The least mass in (lo, hi] that reaches the balance.
MassBisect(lo, hi, a1, Mp, T) ==
    IF hi - lo <= 1 THEN hi
    ELSE LET mid == (lo + hi) \div 2
         IN  IF MassReached(mid, a1, Mp, T) THEN MassBisect(lo, mid, a1, Mp, T)
                                            ELSE MassBisect(mid, hi, a1, Mp, T)

\* Slip: the square root is taken without the test u^2 >= v^2; a negative
\* radicand gives a NaN that is returned as the mass.
derive_companion_mass_unguarded(A, B, F, G, parallax, primary_mass, period) ==
    LET u == HelperU(A, B, F, G)
        v == HelperV(A, B, F, G)
        nan == Discriminant(u, v) < 0
        sma == IF nan THEN 0 ELSE SemiMajorAxis(u, v)
        a1 == FloorDiv(sma * Scale, parallax)
    IN  [status |-> "returned", u |-> u, v |-> v,
         ret |-> IF nan THEN <<"nan">>
                 ELSE <<MassBisect(-1, MassMax, a1, primary_mass, period)>>]

\* derive_companion_mass(A, B, F, G, parallax, primary_mass, period): the
\* result is <<companion_mass>>, or nothing with status "invalid_geometry".
derive_companion_mass(A, B, F, G, parallax, primary_mass, period) ==
    LET u == HelperU(A, B, F, G)
        v == HelperV(A, B, F, G)
        a1 == FloorDiv(SemiMajorAxis(u, v) * Scale, parallax)
    IN  IF Discriminant(u, v) < 0
        THEN [status |-> "invalid_geometry", u |-> u, v |-> v, ret |-> <<>>]
        ELSE [status |-> "returned", u |-> u, v |-> v,
              ret |-> <<MassBisect(-1, MassMax, a1, primary_mass, period)>>]

\* Thiele-Innes constants tried: none, a quarter, and +-(3/4 + one grid step),
\* whose squares and products round differently.
TIValues == {0, Scale \div 4, (3 * Scale) \div 4 + 1, -((3 * Scale) \div 4 + 1)}

MassInit ==
    /\ mass \in { [A |-> A, B |-> B, F |-> F, G |-> G, parallax |-> plx,
                   primary_mass |-> primary_mass_default, period |-> T,
                   status |-> "called", u |-> 0, v |-> 0, ret |-> <<>>] :
                  A \in TIValues, B \in TIValues, F \in TIValues, G \in TIValues,
                  plx \in {Scale, 2 * Scale}, T \in {2 * Scale, 5 * Scale} }
    /\ kepler = Idle
    /\ thiele = Idle
    /\ pred = Idle
    /\ fit = Idle
    /\ prof = Idle
    /\ pipe = Idle
    /\ nb = Idle
    /\ plot = Idle

MassApply ==
    /\ mass.status = "called"
    /\ LET r == derive_companion_mass(mass.A, mass.B, mass.F, mass.G, mass.parallax,
                                      mass.primary_mass, mass.period)
       IN  mass' = [mass EXCEPT !.status = r.status, !.u = r.u, !.v = r.v, !.ret = r.ret]
    /\ UNCHANGED <<kepler, thiele, pred, fit, prof, pipe, nb, plot>>

MassNext == MassApply

SpecMass == MassInit /\ [][MassNext]_vars

RECURSIVE CbrtBisect(_, _, _)
\* The least y in (lo, hi] with y^3 >= x.
CbrtBisect(x, lo, hi) ==
    IF hi - lo <= 1 THEN hi
    ELSE IF Mul(Mul((lo + hi) \div 2, (lo + hi) \div 2), (lo + hi) \div 2) >= x
         THEN CbrtBisect(x, lo, (lo + hi) \div 2)
         ELSE CbrtBisect(x, (lo + hi) \div 2, hi)

\* Semimajor axis of the relative orbit in AU, from Kepler's third law
\* T^2 = a^3 / Mtot.
RelativeOrbit(Mtot, T) == CbrtBisect(Mul(Mtot, Mul(T, T)), 0, 10 * Scale)

\* Semimajor axis of the primary's orbit about the barycenter in arcseconds:
\* the fraction Msec / Mtot of the relative orbit, times the parallax.
PrimaryOrbit(Mp, Ms, T, parallax) ==
    Mul(FloorDiv(RelativeOrbit(Mp + Ms, T) * Ms, Mp + Ms), parallax)

\* The Thiele-Innes constants of an orbit of semimajor axis sma with node
\* Omega, argument of periastron omega and inclination inc.
ThieleInnesConstants(sma, Omega, omega, inc) ==
    [A |-> Mul(sma, Mul(Cos(Omega), Cos(omega))
                    - Mul(Mul(Sin(Omega), Sin(omega)), Cos(inc))),
     B |-> Mul(sma, Mul(Sin(Omega), Cos(omega))
                    + Mul(Mul(Cos(Omega), Sin(omega)), Cos(inc))),
     F |-> Mul(sma, -Mul(Cos(Omega), Sin(omega))
                    - Mul(Mul(Sin(Omega), Cos(omega)), Cos(inc))),
     G |-> Mul(sma, -Mul(Sin(Omega), Sin(omega))
                    + Mul(Mul(Cos(Omega), Cos(omega)), Cos(inc)))]

\* Orientations (Omega, omega, inc): face-on (periastron along the node and
\* away from it), inclined, edge-on.
Orientations ==
    {<<0, 0, 0>>, <<0, Scale \div 2, 0>>, <<Scale \div 2, Scale, Scale>>,
     <<2 * Scale, 4 * Scale, 2 * Scale>>, <<Scale, Scale \div 2, HalfPi>>}

\* The call on the constants of a synthetic system with companion mass Ms.
SyntheticCall(Ms, Mp, T, parallax, TI) ==
    [A |-> TI.A, B |-> TI.B, F |-> TI.F, G |-> TI.G, parallax |-> parallax,
     primary_mass |-> Mp, period |-> T, status |-> "called", u |-> 0, v |-> 0,
     ret |-> <<>>, injected |-> Ms]

SyntheticInit ==
    /\ mass \in { SyntheticCall(Ms, Mp, T, plx,
                      ThieleInnesConstants(PrimaryOrbit(Mp, Ms, T, plx), o[1], o[2], o[3])) :
                   Ms \in {(3 * Scale) \div 10, Scale \div 2, Scale, 2 * Scale},
                   Mp \in {primary_mass_default, Scale},
                   T \in {2 * Scale, 5 * Scale}, plx \in {Scale, 2 * Scale},
                   o \in Orientations }
    /\ kepler = Idle
    /\ thiele = Idle
    /\ pred = Idle
    /\ fit = Idle
    /\ prof = Idle
    /\ pipe = Idle
    /\ nb = Idle
    /\ plot = Idle

SpecSynthetic == SyntheticInit /\ [][MassNext]_vars

\* Tolerance on a recovered mass: 0.02 solar masses.
MassTol == (2 * Scale) \div 100

C6_InvalidGeometry ==
    mass.status # "called" =>
        LET u == HelperU(mass.A, mass.B, mass.F, mass.G)
            v == HelperV(mass.A, mass.B, mass.F, mass.G)
        IN  /\ mass.u = u /\ mass.v = v
            /\ Mul(u, u) < Mul(v, v) <=> mass.status = "invalid_geometry"
            /\ mass.status = "invalid_geometry" => mass.ret = <<>>
            /\ mass.status = "returned" => (Len(mass.ret) = 1 /\ mass.ret[1] \in 0..MassMax)

C6_Witness ==
    /\ mass.status = "invalid_geometry"
    /\ Mul(mass.u, mass.u) < Mul(mass.v, mass.v)
    /\ mass.ret = <<>>

-----------------------------------------------------------------------------
(* The stages: load, fit single-star, fit orbital, profile, derive mass    *)

\* Reference epoch J2016.0 (JD 2457389.0) and the Julian year (365.25 days),
\* in hundredths of a day.
ref_ep == 245738900

JulianYear == 36525

\* Quotient rounded up.
CeilDiv(a, b) == -FloorDiv(-a, b)

\* The Julian date of the j-th observation, in hundredths of a day.
ObsJuld(j) == ref_ep + CeilDiv(ObsT(j) * JulianYear, Scale)

\* Slip: the difference is taken the other way round.
YearsFromReversed(juld) == FloorDiv((ref_ep - juld) * Scale, JulianYear)

\* t = (juld - ref_ep)/365.25, in Julian years from 2016.0.
YearsFrom(juld) == FloorDiv((juld - ref_ep) * Scale, JulianYear)

\* QTable.read of the two files: the observations and the scanning law, row
\* i of each for the i-th observation of rows.
v1298tau_data(rows) ==
    [Time |-> [i \in DOMAIN rows |-> ObsJuld(rows[i])],
     w |-> [i \in DOMAIN rows |-> ObsWobs(rows[i])],
     err_w |-> [i \in DOMAIN rows |-> ObsSigw(rows[i])]]

gaia_scan_v1298tau(rows) ==
    [scanAngle |-> [i \in DOMAIN rows |-> ObsTheta(rows[i])],
     parallaxFactorAlongScan |-> [i \in DOMAIN rows |-> ObsParfac(rows[i])]]

\* The rows of a column in reverse order.
Reversed(a) == [i \in DOMAIN a |-> a[Len(a) + 1 - i]]

\* Slip: the scanning law is taken latest row first.
FillVariablesScanReversed(data, scan) ==
    [juld |-> data.Time, wobs |-> data.w, sigw |-> data.err_w,
     theta |-> Reversed(scan.scanAngle),
     costheta |-> costheta(Reversed(scan.scanAngle)),
     sintheta |-> sintheta(Reversed(scan.scanAngle)),
     parfac |-> Reversed(scan.parallaxFactorAlongScan),
     t |-> [i \in DOMAIN data.Time |-> YearsFrom(data.Time[i])]]

\* The time-series and scanning-law variables filled from the two tables.
FillVariables(data, scan) ==
    [juld |-> data.Time, wobs |-> data.w, sigw |-> data.err_w,
     theta |-> scan.scanAngle,
     costheta |-> costheta(scan.scanAngle), sintheta |-> sintheta(scan.scanAngle),
     parfac |-> scan.parallaxFactorAlongScan,
     t |-> [i \in DOMAIN data.Time |-> YearsFrom(data.Time[i])]]

\* The stages in their order.
Stages == <<"load", "fit_single_star", "fit_orbital", "profile", "derive_mass">>

\* rows: the observations the two files hold; guess and fixed_values: the
\* caller's starting point and the eccentricities to profile.  data, scan and
\* filled are the loaded tables and variables, single, orbital, profile and
\* companion the results of the later stages, each empty until produced.
PipeInit ==
    /\ pipe \in { [rows |-> rows, guess |-> g, fixed_values |-> values,
                    now |-> "none", done |-> <<>>,
                    data |-> <<>>, scan |-> <<>>, filled |-> <<>>,
                    single |-> <<>>, orbital |-> <<>>, profile |-> <<>>,
                    companion |-> <<>>] :
                   rows \in FitTables, g \in {ParamVec(1), ParamVec(2)},
                   values \in {<<(95 * Scale) \div 100, (3 * Scale) \div 10>>,
                               <<(3 * Scale) \div 10>>} }
    /\ kepler = Idle
    /\ thiele = Idle
    /\ pred = Idle
    /\ mass = Idle
    /\ fit = Idle
    /\ prof = Idle
    /\ nb = Idle
    /\ plot = Idle

\* The stage now running is finished.
Finished(q) == [q EXCEPT !.done = Append(@, q.now), !.now = "none"]

\* The next stage to run is stage number k.
Ready(q, k) == q.now = "none" /\ Len(q.done) = k - 1

\* load, first cell: the two files are read.
PipeRead ==
    /\ Ready(pipe, 1)
    /\ pipe' = [pipe EXCEPT !.now = "load",
                            !.data = <<v1298tau_data(pipe.rows)>>,
                            !.scan = <<gaia_scan_v1298tau(pipe.rows)>>]
    /\ UNCHANGED <<kepler, thiele, pred, mass, fit, prof, nb, plot>>

\* Slip: the epochs are converted in place (juld -= ref_ep; juld /= 365.25),
\* which overwrites the loaded Time column.
PipeFillInPlace ==
    /\ pipe.now = "load"
    /\ pipe' = Finished([pipe EXCEPT
                  !.filled = <<FillVariables(pipe.data[1], pipe.scan[1])>>,
                  !.data = <<[pipe.data[1] EXCEPT
                                !.Time = [i \in DOMAIN @ |-> YearsFrom(@[i])]]>>])
    /\ UNCHANGED <<kepler, thiele, pred, mass, fit, prof, nb, plot>>

\* load, second cell: the variables are filled from the tables.
PipeFill ==
    /\ pipe.now = "load"
    /\ pipe' = Finished([pipe EXCEPT
                  !.filled = <<FillVariables(pipe.data[1], pipe.scan[1])>>])
    /\ UNCHANGED <<kepler, thiele, pred, mass, fit, prof, nb, plot>>

\* fit single-star and fit orbital: the fit is called on the loaded table.
PipeFitBegin ==
    /\ \E k \in {2, 3} :
          /\ Ready(pipe, k)
          /\ pipe' = [pipe EXCEPT !.now = Stages[k]]
          /\ fit' = FitCall(IF k = 2 THEN "single_star" ELSE "orbital", pipe.rows,
                            <<>>, pipe.guess, 1, "none")
    /\ UNCHANGED <<kepler, thiele, pred, mass, prof, nb, plot>>

PipeFitStep ==
    /\ pipe.now \in {"fit_single_star", "fit_orbital"}
    /\ FitNext

\* The fit returned its FitResult.
PipeFitEnd ==
    /\ pipe.now \in {"fit_single_star", "fit_orbital"}
    /\ fit.status = "success"
    /\ pipe' = Finished(IF pipe.now = "fit_single_star"
                        THEN [pipe EXCEPT !.single = fit.result]
                        ELSE [pipe EXCEPT !.orbital = fit.result])
    /\ fit' = Idle
    /\ UNCHANGED <<kepler, thiele, pred, mass, prof, nb, plot>>

\* profile: chi^2 against eccentricity, starting from the orbital fit.
PipeProfileBegin ==
    /\ Ready(pipe, 4)
    /\ pipe' = [pipe EXCEPT !.now = "profile"]
    /\ prof' = ProfileCall(pipe.rows, "e", pipe.fixed_values, pipe.orbital[1].params)
    /\ UNCHANGED <<kepler, thiele, pred, mass, fit, nb, plot>>

PipeProfileStep ==
    /\ pipe.now = "profile"
    /\ ProfileNext

PipeProfileEnd ==
    /\ pipe.now = "profile"
    /\ prof.status = "done"
    /\ pipe' = Finished([pipe EXCEPT !.profile = prof.out])
    /\ prof' = Idle
    /\ UNCHANGED <<kepler, thiele, pred, mass, fit, nb, plot>>

\* The call derive_companion_mass(A, B, F, G, parallax, primary_mass, period)
\* on the parameter vector p.
MassCall(p) ==
    [A |-> Scale * p.A, B |-> Scale * p.B, F |-> Scale * p.F, G |-> Scale * p.G,
     parallax |-> Scale * p.parallax, primary_mass |-> primary_mass_default,
     period |-> p.T, status |-> "called", u |-> 0, v |-> 0, ret |-> <<>>]

\* Slip: the mass is derived from the optimizer's current vector while the
\* orbital fit is still running.
PipeMassBeginEarly ==
    /\ pipe.now = "fit_orbital"
    /\ fit.status = "running"
    /\ pipe' = [pipe EXCEPT !.now = "derive_mass"]
    /\ mass' = MassCall(fit.cur)
    /\ UNCHANGED <<kepler, thiele, pred, fit, prof, nb, plot>>

\* derive mass: from the parameter vector the orbital fit returned.
PipeMassBegin ==
    /\ Ready(pipe, 5)
    /\ pipe' = [pipe EXCEPT !.now = "derive_mass"]
    /\ mass' = MassCall(pipe.orbital[1].params)
    /\ UNCHANGED <<kepler, thiele, pred, fit, prof, nb, plot>>

PipeMassStep ==
    /\ pipe.now = "derive_mass"
    /\ MassNext

PipeMassEnd ==
    /\ pipe.now = "derive_mass"
    /\ mass.status = "returned"
    /\ pipe' = Finished([pipe EXCEPT !.companion = mass.ret])
    /\ mass' = Idle
    /\ UNCHANGED <<kepler, thiele, pred, fit, prof, nb, plot>>

\* A stage failed (a fit with no retry left, a profile, or an invalid
\* geometry): the later stages do not run.
PipeFail ==
    /\ \/ pipe.now \in {"fit_single_star", "fit_orbital"}
             /\ fit.status = "failed" /\ fit.calls >= MaxCalls
       \/ pipe.now = "profile" /\ prof.status = "failed"
       \/ pipe.now = "derive_mass" /\ mass.status = "invalid_geometry"
    /\ pipe' = [pipe EXCEPT !.now = "failed"]
    /\ UNCHANGED <<kepler, thiele, pred, mass, fit, prof, nb, plot>>

PipeNext ==
    \/ PipeRead
    \/ PipeFill
    \/ PipeFitBegin
    \/ PipeFitStep
    \/ PipeFitEnd
    \/ PipeProfileBegin
    \/ PipeProfileStep
    \/ PipeProfileEnd
    \/ PipeMassBegin
    \/ PipeMassStep
    \/ PipeMassEnd
    \/ PipeFail

SpecPipe == PipeInit /\ [][PipeNext]_vars

\* What a step may not change: the loaded tables and variables, the results
\* already returned, and the inputs of a call in progress.
InputsKept ==
    /\ pipe'.rows = pipe.rows
    /\ pipe.data # <<>> => (pipe'.data = pipe.data /\ pipe'.scan = pipe.scan)
    /\ pipe.filled # <<>> => pipe'.filled = pipe.filled
    /\ pipe.single # <<>> => pipe'.single = pipe.single
    /\ pipe.orbital # <<>> => pipe'.orbital = pipe.orbital
    /\ (fit.status # "idle" /\ fit'.status # "idle") => fit'.tab = fit.tab
    /\ (prof.status # "idle" /\ prof'.status # "idle") =>
          (prof'.tab = prof.tab /\ prof'.fixed_values = prof.fixed_values)

\* C15: no step of any stage changes the observation table (the loaded
\* columns and the variables filled from them) or a FitResult returned by an
\* earlier fit, and a call in progress never changes the table it was given.
C15_InputsUnchanged == [][InputsKept]_vars

C15_Witness ==
    /\ pipe.done = Stages
    /\ pipe.data = <<v1298tau_data(pipe.rows)>>
    /\ pipe.scan = <<gaia_scan_v1298tau(pipe.rows)>>
    /\ pipe.filled[1].juld = pipe.data[1].Time
    /\ pipe.single[1].kind = "FitResult"
    /\ pipe.orbital[1].kind = "FitResult"
    /\ pipe.single[1].chi2 > pipe.orbital[1].chi2

\* The value of stage number k exists exactly when the stage has finished.
Produced(k, value) == value # <<>> <=> Len(pipe.done) >= k

-----------------------------------------------------------------------------
(* The data-loading cells on their own                                     *)

\* Julian dates an observation file can hold, in hundredths of a day: a year
\* before the reference epoch, just before it, the epoch itself, just after,
\* less than a grid step of t later again, and two years after.
JulianDates ==
    {ref_ep - JulianYear, ref_ep - 1, ref_ep, ref_ep + 1, ref_ep + 37,
     ref_ep + 2 * JulianYear}

\* The scan angle and the parallax factor Gaia had at a Julian date.
ScanAngleAt(juld) == ((juld - ref_ep) * 3) % TwoPi

ParfacAt(juld) == Sin(((juld - ref_ep) * 7) + (Scale \div 3))

\* The measurement and its uncertainty at a Julian date.
WobsAt(juld) == ((juld - ref_ep) % 97) - 40

SigwAt(juld) == 1 + ((juld - ref_ep) % 3)

\* The two files as read by QTable.read for the epochs juld: the observations,
\* and the scanning law, which lists the same observation times.
ObservationsFile(juld) ==
    [Time |-> juld,
     w |-> [i \in DOMAIN juld |-> WobsAt(juld[i])],
     err_w |-> [i \in DOMAIN juld |-> SigwAt(juld[i])]]

ScanningLawFile(juld) ==
    [ObservationTime |-> juld,
     scanAngle |-> [i \in DOMAIN juld |-> ScanAngleAt(juld[i])],
     parallaxFactorAlongScan |-> [i \in DOMAIN juld |-> ParfacAt(juld[i])]]

\* The state after the table-reading cell: both files are in memory, in the
\* order of their rows (not necessarily the order of time).
LoadInit ==
    /\ pipe \in { [now |-> "load", done |-> <<>>,
                    data |-> <<ObservationsFile(juld)>>,
                    scan |-> <<ScanningLawFile(juld)>>,
                    filled |-> <<>>] :
                   juld \in SeqsUpTo(JulianDates, MaxObs) }
    /\ kepler = Idle
    /\ thiele = Idle
    /\ pred = Idle
    /\ mass = Idle
    /\ fit = Idle
    /\ prof = Idle
    /\ nb = Idle
    /\ plot = Idle

SpecLoad == LoadInit /\ [][PipeFill]_vars

\* The smallest difference of two Julian dates that is a full grid step of t.
GridStep == CeilDiv(JulianYear, Scale)

\* C21: t = (JD - 2457389.0)/365.25: the reference epoch gets t = 0, earlier
\* observations get t < 0 (and later ones t >= 0), and the conversion keeps
\* the order of the epochs: never reversed, and strict for epochs at least a
\* grid step apart.
C21_JulianYears ==
    pipe.filled # <<>> =>
        LET juld == pipe.data[1].Time
            t == pipe.filled[1].t
        IN  /\ DOMAIN t = DOMAIN juld
            /\ \A i \in DOMAIN juld :
                  /\ t[i] = FloorDiv((juld[i] - 245738900) * Scale, 36525)
                  /\ juld[i] = ref_ep => t[i] = 0
                  /\ juld[i] < ref_ep => t[i] < 0
                  /\ juld[i] > ref_ep => t[i] >= 0
            /\ \A i, j \in DOMAIN juld :
                  /\ juld[i] < juld[j] => t[i] <= t[j]
                  /\ juld[i] + GridStep <= juld[j] => t[i] < t[j]

C21_Witness ==
    /\ pipe.filled # <<>>
    /\ Len(pipe.data[1].Time) = 3
    /\ pipe.data[1].Time[1] = ref_ep /\ pipe.filled[1].t[1] = 0
    /\ pipe.data[1].Time[2] < ref_ep - 1 /\ pipe.filled[1].t[2] = -Scale
    /\ pipe.data[1].Time[3] > ref_ep /\ pipe.filled[1].t[3] > 0

\* C28: the arrays t, wobs, sigw, theta, sintheta, costheta and parfac have
\* the same length, and element i of each belongs to the observation epoch of
\* row i, in the observation table and in the scanning-law table alike.
C28_RowsPaired ==
    pipe.filled # <<>> =>
        LET f == pipe.filled[1]
            juld == pipe.data[1].Time
        IN  /\ \A a \in {f.t, f.wobs, f.sigw, f.theta, f.sintheta, f.costheta,
                         f.parfac} : DOMAIN a = DOMAIN juld
            /\ \A i \in DOMAIN juld :
                  /\ pipe.scan[1].ObservationTime[i] = juld[i]
                  /\ f.t[i] = YearsFrom(juld[i])
                  /\ f.wobs[i] = WobsAt(juld[i])
                  /\ f.sigw[i] = SigwAt(juld[i])
                  /\ f.theta[i] = ScanAngleAt(juld[i])
                  /\ f.sintheta[i] = Sin(ScanAngleAt(juld[i]))
                  /\ f.costheta[i] = Cos(ScanAngleAt(juld[i]))
                  /\ f.parfac[i] = ParfacAt(juld[i])

C28_Witness ==
    /\ pipe.filled # <<>>
    /\ Len(pipe.filled[1].t) = 3
    /\ pipe.filled[1].t[1] > pipe.filled[1].t[2]
    /\ pipe.filled[1].t[2] < pipe.filled[1].t[3]
    /\ pipe.filled[1].theta[1] # pipe.filled[1].theta[3]
    /\ pipe.filled[1].parfac[1] # pipe.filled[1].parfac[3]
    /\ pipe.filled[1].wobs[1] # pipe.filled[1].wobs[3]

-----------------------------------------------------------------------------
(* Notebooks run cell by cell                                              *)
(*                                                                         *)
(* A notebook is a sequence of code cells and a cell a sequence of         *)
(* statements.  A statement reads names of the kernel and defines names;   *)
(* reading a name no executed statement has defined raises NameError.      *)
(* An exception ends the cell and halts the run; a shell escape (!cmd)     *)
(* never raises, whatever the command's exit status.                       *)

\* A statement: its kind, the names it reads and defines, the user table
\* it names by a literal (table), and the variables holding the qualified
\* names of the user tables it works on (from).
Stmt(kind, reads, defines, table, from) ==
    [kind |-> kind, reads |-> reads, defines |-> defines, table |-> table,
     from |-> from]

Py(reads, defines) == Stmt("py", reads, defines, "", {})

Cell(id, stmts) == [id |-> id, stmts |-> stmts]

\* SSW2022_Jupyter_GaiaHandsOn.ipynb: its code cells, top to bottom.  Cells
\* holding only a comment are left to the reader and have no statement.
\* The cells before the login: imports, plot settings, the archive's tables,
\* the query for the nearby stars with its print and plot, the comment-only
\* cells of questions 1 and 2, the table of the NASA Exoplanet Archive.
GaiaQueries ==
    <<Cell("-pORBILzQnCY",
           <<Py({}, {"np", "plt", "rc", "Gaia", "NasaExoplanetArchive", "Table",
                     "chain"})>>),
      Cell("ibx7vlujj2-7",
           <<Py({}, {"linewidths", "axislinewidths", "lenticks"}),
             Py({"rc", "lenticks", "linewidths", "axislinewidths"}, {})>>),
      Cell("QlcOOYbyRiZY",
           <<Py({"Gaia"}, {"tables"}), Py({"tables"}, {"table"})>>),
      Cell("3ZjhXQW7SHdf",
           <<Stmt("query", {"Gaia"}, {"job"}, "", {}), Py({"job"}, {"gtable"})>>),
      Cell("HWx2IOjoZKez", <<Py({"gtable"}, {})>>),
      Cell("4Hhxm_4aAb6s",
           <<Py({"gtable"}, {"bp_rp"}), Py({"plt"}, {"fig", "axcmd"}),
             Py({"axcmd", "bp_rp", "gtable"}, {}), Py({"plt"}, {})>>),
      Cell("QrnfytN2_Cc3", <<>>),
      Cell("2HB4Dw0MqCp7", <<>>),
      Cell("V7HfLOkQxDcl", <<>>),
      Cell("21AooQtEwvBT", <<>>),
      Cell("51Dz5C45fQkQ",
           <<Py({}, {"exocolumns"}), Py({"exocolumns"}, {"select_string"}),
             Py({"Table", "NasaExoplanetArchive", "select_string"}, {"exotable"})>>),
      Cell("Suh_fhV0g-Mp", <<Py({"exotable"}, {})>>)>>

\* username = '...'; Gaia.login(user = username)
GaiaLoginCell ==
    Cell("jz3Q1Ypx8-Vc",
         <<Py({}, {"username"}),
           Stmt("login", {"Gaia", "username"}, {}, "", {})>>)

\* The three tables the exercise creates in the user's schema.
UserTables == {"exoplanet_archive", "exoplanets_gaia", "exo_gaia_best"}

GaiaCleanup ==
    Cell("Yp1uorEuIhjL",
         <<Stmt("delete", {"Gaia"}, {}, "exoplanet_archive", {}),
           Stmt("delete", {"Gaia"}, {}, "exoplanets_gaia", {}),
           Stmt("delete", {"Gaia"}, {}, "exo_gaia_best", {})>>)

GaiaUpload ==
    Cell("Lj3BZOIw6uaU",
         <<Stmt("upload", {"Gaia", "exotable", "exocolumns"}, {},
                "exoplanet_archive", {})>>)

\* Slip: the ra and dec columns are not flagged before the cross-match.
GaiaCrossMatchUnflagged ==
    Cell("Jh5kAPjUMADD",
         <<Py({"username"}, {"full_qualified_table_name"}),
           Py({}, {"xmatch_table_name"}),
           Py({}, {"search_radius"}),
           Stmt("xmatch",
                {"Gaia", "full_qualified_table_name", "xmatch_table_name",
                 "search_radius"}, {}, "", {"full_qualified_table_name"})>>)

GaiaCrossMatch ==
    Cell("Jh5kAPjUMADD",
         <<Py({"username"}, {"full_qualified_table_name"}),
           Py({}, {"xmatch_table_name"}),
           Py({}, {"search_radius"}),
           Stmt("flag", {"Gaia", "full_qualified_table_name"}, {}, "",
                {"full_qualified_table_name"}),
           Stmt("xmatch",
                {"Gaia", "full_qualified_table_name", "xmatch_table_name",
                 "search_radius"}, {}, "", {"full_qualified_table_name"})>>)

GaiaJoin ==
    Cell("NGdLme_RT_Fs",
         <<Py({"username", "xmatch_table_name"}, {"xmatch_table"}),
           Py({}, {"gaia_columns"}),
           Py({}, {"gaia_columns_for_query"}),
           Py({"gaia_columns", "gaia_columns_for_query"}, {"name"}),
           Py({"gaia_columns_for_query"}, {"gaia_select"}),
           Py({"gaia_select", "full_qualified_table_name", "xmatch_table"},
              {"query"}),
           Stmt("query", {"Gaia", "query"}, {"job"}, "",
                {"full_qualified_table_name", "xmatch_table"}),
           Py({"job"}, {"exo_gaia_table"})>>)

GaiaJoinPrint == Cell("v8H6zV3IW331", <<Py({"search_radius", "exo_gaia_table"}, {})>>)

\* Question 3: comment-only cells; 3.3 asks the reader for exo_gaia_best.
GaiaQuestion3 ==
    <<Cell("Kbcu_p_ddyDM", <<>>), Cell("kj95wkcXiLpc", <<>>),
      Cell("YcdZn6GuoR4t", <<>>)>>

\* The reader's answer to question 3.3.
ReaderQuestion3 ==
    Cell("YcdZn6GuoR4t", <<Py({"exo_gaia_table"}, {"exo_gaia_best"})>>)

GaiaQuestion4 == <<Cell("vxB3eHS6wzHl", <<>>), Cell("3lp3B-Tu7znm", <<>>)>>

GaiaUploadBest ==
    Cell("672rz2uwDGo9",
         <<Py({"exo_gaia_best"}, {"exo_gaia_best_dist"}),
           Stmt("upload", {"Gaia", "exo_gaia_best_dist"}, {}, "exo_gaia_best",
                {})>>)

\* The query for the astrophysical parameters, its print, and the
\* comment-only cell of question 5.
GaiaParameters ==
    <<Cell("841GT3NxHOs_",
           <<Py({"username"}, {"exo_table_name"}),
             Py({}, {"ap_columns"}),
             Py({}, {"ap_columns_for_query"}),
             Py({"ap_columns", "ap_columns_for_query"}, {"name"}),
             Py({"ap_columns_for_query"}, {"ap_select"}),
             Py({"ap_select", "exo_table_name"}, {"query"}),
             Stmt("query", {"Gaia", "query"}, {"job"}, "", {"exo_table_name"}),
             Py({"job"}, {"exo_dr3_aps"})>>),
      Cell("5VV6qfqSJiq-", <<Py({"exo_dr3_aps"}, {})>>),
      Cell("QvDWTRyWrU5S", <<>>)>>

GaiaCells ==
    GaiaQueries \o
    <<GaiaLoginCell, GaiaCleanup, GaiaUpload, GaiaCrossMatch, GaiaJoin,
      GaiaJoinPrint>> \o
    GaiaQuestion3 \o GaiaQuestion4 \o <<GaiaUploadBest>> \o GaiaParameters

\* SSW2022_Jupyter_Orvara_Projects.ipynb: its code cells, top to bottom.
Shell(command) == Stmt("shell", {}, {}, command, {})

OrvaraPytest == Cell("WMSxQZF-p2S2", <<Shell("pytest")>>)

OrvaraFit == Cell("_Ht6HPP0p2S_", <<Shell("fit_orbit")>>)

OrvaraPlot == Cell("p96lpCcjp2TA", <<Shell("plot_orbit")>>)

OrvaraList == Cell("MrgWLxtLp2TA", <<Shell("ls")>>)

OrvaraVisualOrbit == Cell("h71ahpdDp2TB", <<Py({}, {"HTML"}), Py({"HTML"}, {})>>)

OrvaraBeststep ==
    Cell("VyEoDNsTp2TC",
         <<Py({}, {}), Stmt("display", {"display_file"}, {}, "beststep", {})>>)

OrvaraPosterior ==
    Cell("fp00v-yep2TC",
         <<Py({}, {}), Stmt("display", {"display_file"}, {}, "posterior", {})>>)

\* A cell of the reader's that defines display_file, which the notebook
\* calls and defines nowhere.
ReaderDisplayFile == Cell("reader", <<Py({}, {"display_file"})>>)

\* Slip: the plot_orbit cell comes before the fit_orbit cell.
OrvaraCellsPlotFirst ==
    <<OrvaraPytest, OrvaraPlot, OrvaraFit, OrvaraList, OrvaraVisualOrbit,
      OrvaraBeststep, OrvaraPosterior>>

OrvaraCells ==
    <<OrvaraPytest, OrvaraFit, OrvaraPlot, OrvaraList, OrvaraVisualOrbit,
      OrvaraBeststep, OrvaraPosterior>>

\* The Gaia archive user of the reader, who puts the name in the login cell.
ArchiveUser == "reader"

\* The cells of a run: the provided ones, with the reader's answer to
\* question 3.3 in its cell when the reader has written one.
CellsOf(q) ==
    IF q.book = "orvara"
    THEN IF q.reader THEN <<ReaderDisplayFile>> \o OrvaraCells ELSE OrvaraCells
    ELSE IF q.reader
         THEN [i \in DOMAIN GaiaCells |->
                 IF GaiaCells[i].id = ReaderQuestion3.id THEN ReaderQuestion3
                 ELSE GaiaCells[i]]
         ELSE GaiaCells

\* A kernel before its first cell.  val holds the values of the variables
\* that name user tables; session is the archive user logged in, tables and
\* flags the user tables of the archive and those with flagged coordinates,
\* files and config the working directory of the orvara commands.
NbStart(book, reader, tables, flags, files) ==
    [book |-> book, reader |-> reader, cell |-> 1, stmt |-> 1,
     status |-> "running", reason |-> "", names |-> {},
     val |-> [username |-> "", full_qualified_table_name |-> <<>>,
              xmatch_table_name |-> "", xmatch_table |-> <<>>,
              exo_table_name |-> <<>>],
     session |-> "none", logouts |-> 0, tables |-> tables, flags |-> flags,
     files |-> files, config |-> FALSE, log |-> <<>>]

\* The statement about to run.
AtStmt(q) ==
    /\ q.status = "running"
    /\ q.cell <= Len(CellsOf(q))
    /\ q.stmt <= Len(CellsOf(q)[q.cell].stmts)

Cur(q) == CellsOf(q)[q.cell].stmts[q.stmt]

\* The statement has run: on to the next one, or to the next cell.
Advance(q) ==
    IF q.stmt < Len(CellsOf(q)[q.cell].stmts)
    THEN [q EXCEPT !.stmt = @ + 1]
    ELSE [q EXCEPT !.cell = @ + 1, !.stmt = 1]

\* An exception: the cell ends here and the run halts.
Raise(q, reason) == [q EXCEPT !.status = "error", !.reason = reason]

\* One line of the record of archive operations.
Logged(q, op, table, reads, ok) ==
    [q EXCEPT !.log = Append(@, [op |-> op, table |-> table, reads |-> reads,
                                 ok |-> ok, session |-> q.session,
                                 cell |-> q.cell, stmt |-> q.stmt])]

\* The values of the table-name variables after the names defs are assigned.
Assigned(val, defs) ==
    [username |-> IF "username" \in defs THEN ArchiveUser ELSE val.username,
     full_qualified_table_name |->
         IF "full_qualified_table_name" \in defs
         THEN <<val.username, "exoplanet_archive">>
         ELSE val.full_qualified_table_name,
     xmatch_table_name |->
         IF "xmatch_table_name" \in defs THEN "exoplanets_gaia"
         ELSE val.xmatch_table_name,
     xmatch_table |->
         IF "xmatch_table" \in defs THEN <<val.username, val.xmatch_table_name>>
         ELSE val.xmatch_table,
     exo_table_name |->
         IF "exo_table_name" \in defs THEN <<val.username, "exo_gaia_best">>
         ELSE val.exo_table_name]

\* The qualified table names held by the variables from.
Resolve(val, from) ==
    {val.full_qualified_table_name : n \in from \cap {"full_qualified_table_name"}}
    \cup {val.xmatch_table : n \in from \cap {"xmatch_table"}}
    \cup {val.exo_table_name : n \in from \cap {"exo_table_name"}}

\* A statement reads a name that no statement run so far has defined.
NbNameError ==
    /\ AtStmt(nb)
    /\ ~(Cur(nb).reads \subseteq nb.names)
    /\ nb' = Raise(nb, "NameError")
    /\ UNCHANGED <<kepler, thiele, pred, mass, fit, prof, pipe, plot>>

\* Assignments, imports, prints and plots.
NbPython ==
    /\ AtStmt(nb)
    /\ Cur(nb).kind = "py"
    /\ Cur(nb).reads \subseteq nb.names
    /\ nb' = Advance([nb EXCEPT !.names = @ \cup Cur(nb).defines,
                                !.val = Assigned(@, Cur(nb).defines)])
    /\ UNCHANGED <<kepler, thiele, pred, mass, fit, prof, pipe, plot>>

\* A cell holding only a comment.
NbEmptyCell ==
    /\ nb.status = "running"
    /\ nb.cell <= Len(CellsOf(nb))
    /\ CellsOf(nb)[nb.cell].stmts = <<>>
    /\ nb' = [nb EXCEPT !.cell = @ + 1]
    /\ UNCHANGED <<kepler, thiele, pred, mass, fit, prof, pipe, plot>>

\* The last cell has run.
NbFinish ==
    /\ nb.status = "running"
    /\ nb.cell > Len(CellsOf(nb))
    /\ nb' = [nb EXCEPT !.status = "done"]
    /\ UNCHANGED <<kepler, thiele, pred, mass, fit, prof, pipe, plot>>

\* Gaia.login(user = username)
GaiaLogin ==
    /\ AtStmt(nb)
    /\ Cur(nb).kind = "login"
    /\ Cur(nb).reads \subseteq nb.names
    /\ nb' = Advance(Logged([nb EXCEPT !.session = nb.val.username],
                            "login", <<>>, {}, TRUE))
    /\ UNCHANGED <<kepler, thiele, pred, mass, fit, prof, pipe, plot>>

\* Gaia.delete_user_table(name): the archive refuses without a session and
\* when the table does not exist, and the refusal is raised as an HTTPError.
GaiaDeleteUserTable ==
    /\ AtStmt(nb)
    /\ Cur(nb).kind = "delete"
    /\ Cur(nb).reads \subseteq nb.names
    /\ LET t == <<nb.session, Cur(nb).table>>
       IN  nb' = IF nb.session = "none"
                 THEN Raise(Logged(nb, "delete", t, {}, FALSE), "no_session")
                 ELSE IF t \notin nb.tables
                 THEN Raise(Logged(nb, "delete", t, {}, FALSE), "absent")
                 ELSE Advance(Logged([nb EXCEPT !.tables = @ \ {t},
                                                !.flags = @ \ {t}],
                                     "delete", t, {}, TRUE))
    /\ UNCHANGED <<kepler, thiele, pred, mass, fit, prof, pipe, plot>>

\* Gaia.upload_table(upload_resource, table_name): refused without a session
\* and when the table already exists.
GaiaUploadTable ==
    /\ AtStmt(nb)
    /\ Cur(nb).kind = "upload"
    /\ Cur(nb).reads \subseteq nb.names
    /\ LET t == <<nb.session, Cur(nb).table>>
       IN  nb' = IF nb.session = "none"
                 THEN Raise(Logged(nb, "upload", t, {}, FALSE), "no_session")
                 ELSE IF t \in nb.tables
                 THEN Raise(Logged(nb, "upload", t, {}, FALSE), "exists")
                 ELSE Advance(Logged([nb EXCEPT !.tables = @ \cup {t}],
                                     "upload", t, {}, TRUE))
    /\ UNCHANGED <<kepler, thiele, pred, mass, fit, prof, pipe, plot>>

\* Gaia.update_user_table(table_name, list_of_changes): ra and dec are
\* flagged as the sky coordinates of the user's table.
GaiaUpdateUserTable ==
    /\ AtStmt(nb)
    /\ Cur(nb).kind = "flag"
    /\ Cur(nb).reads \subseteq nb.names
    /\ LET t == nb.val.full_qualified_table_name
       IN  nb' = IF nb.session = "none"
                 THEN Raise(Logged(nb, "flag", t, {}, FALSE), "no_session")
                 ELSE IF t \notin nb.tables \/ t[1] # nb.session
                 THEN Raise(Logged(nb, "flag", t, {}, FALSE), "absent")
                 ELSE Advance(Logged([nb EXCEPT !.flags = @ \cup {t}],
                                     "flag", t, {}, TRUE))
    /\ UNCHANGED <<kepler, thiele, pred, mass, fit, prof, pipe, plot>>

\* Gaia.cross_match(table_a, gaiadr3.gaia_source, results_table_name,
\* radius): needs table_a with flagged coordinates and creates the results
\* table in the schema of the session's user.
GaiaCrossMatchRun ==
    /\ AtStmt(nb)
    /\ Cur(nb).kind = "xmatch"
    /\ Cur(nb).reads \subseteq nb.names
    /\ LET a == nb.val.full_qualified_table_name
           r == <<nb.session, nb.val.xmatch_table_name>>
       IN  nb' = IF nb.session = "none"
                 THEN Raise(Logged(nb, "xmatch", r, {a}, FALSE), "no_session")
                 ELSE IF a \notin nb.tables
                 THEN Raise(Logged(nb, "xmatch", r, {a}, FALSE), "absent")
                 ELSE IF a \notin nb.flags
                 THEN Raise(Logged(nb, "xmatch", r, {a}, FALSE), "no_coordinates")
                 ELSE IF r \in nb.tables
                 THEN Raise(Logged(nb, "xmatch", r, {a}, FALSE), "exists")
                 ELSE Advance(Logged([nb EXCEPT !.tables = @ \cup {r}],
                                     "xmatch", r, {a}, TRUE))
    /\ UNCHANGED <<kepler, thiele, pred, mass, fit, prof, pipe, plot>>

\* job = Gaia.launch_job_async(query): a query on public tables runs without
\* a session; one that names user tables needs the session of their owner.
GaiaLaunchJob ==
    /\ AtStmt(nb)
    /\ Cur(nb).kind = "query"
    /\ Cur(nb).reads \subseteq nb.names
    /\ LET R == Resolve(nb.val, Cur(nb).from)
       IN  nb' = IF R = {}
                 THEN Advance([nb EXCEPT !.names = @ \cup Cur(nb).defines])
                 ELSE IF nb.session = "none"
                 THEN Raise(Logged(nb, "query", <<>>, R, FALSE), "no_session")
                 ELSE IF \E t \in R : t \notin nb.tables \/ t[1] # nb.session
                 THEN Raise(Logged(nb, "query", <<>>, R, FALSE), "absent")
                 ELSE Advance(Logged([nb EXCEPT !.names = @ \cup Cur(nb).defines],
                                     "query", <<>>, R, TRUE))
    /\ UNCHANGED <<kepler, thiele, pred, mass, fit, prof, pipe, plot>>

\* The archive ends the session after a while.
AutoLogout ==
    /\ nb.status = "running"
    /\ nb.session # "none"
    /\ nb.logouts < MaxLogouts
    /\ nb' = [nb EXCEPT !.session = "none", !.logouts = @ + 1]
    /\ UNCHANGED <<kepler, thiele, pred, mass, fit, prof, pipe, plot>>

\* The reader re-runs the login cell after a refusal for lack of a session,
\* and then the cell that was refused.
ReRunLogin ==
    /\ nb.status = "error"
    /\ nb.reason = "no_session"
    /\ nb' = Logged([nb EXCEPT !.session = nb.val.username, !.status = "running",
                               !.reason = "", !.stmt = 1],
                    "login", <<>>, {}, TRUE)
    /\ UNCHANGED <<kepler, thiele, pred, mass, fit, prof, pipe, plot>>

\* The cleanup cell stopped at a table that was already deleted: the reader
\* takes the error message as announced and goes on with the next cell.
CleanupErrorIgnored ==
    /\ nb.status = "error"
    /\ nb.reason = "absent"
    /\ CellsOf(nb)[nb.cell].id = GaiaCleanup.id
    /\ nb' = [nb EXCEPT !.status = "running", !.reason = "", !.cell = @ + 1,
                        !.stmt = 1]
    /\ UNCHANGED <<kepler, thiele, pred, mass, fit, prof, pipe, plot>>

\* A first run (no user table yet) or a restart (any of them left over), by
\* a reader who has or has not answered question 3.3.
GaiaInit ==
    /\ nb \in { NbStart("gaia", reader, {<<ArchiveUser, t>> : t \in left},
                          {<<ArchiveUser, t>> : t \in left \cap flagged}, {}) :
                  reader \in BOOLEAN, left \in SUBSET UserTables,
                  flagged \in {{}, {"exoplanet_archive"}} }
    /\ kepler = Idle
    /\ thiele = Idle
    /\ pred = Idle
    /\ mass = Idle
    /\ fit = Idle
    /\ prof = Idle
    /\ pipe = Idle
    /\ plot = Idle

GaiaNext ==
    \/ NbNameError
    \/ NbPython
    \/ NbEmptyCell
    \/ NbFinish
    \/ GaiaLogin
    \/ GaiaDeleteUserTable
    \/ GaiaUploadTable
    \/ GaiaUpdateUserTable
    \/ GaiaCrossMatchRun
    \/ GaiaLaunchJob
    \/ AutoLogout
    \/ ReRunLogin
    \/ CleanupErrorIgnored

\* The cells run as long as none raises, and a reader logged out re-runs the
\* login cell; when the archive ends a session is up to the archive.
GaiaRun ==
    \/ NbNameError
    \/ NbPython
    \/ NbEmptyCell
    \/ NbFinish
    \/ GaiaLogin
    \/ GaiaDeleteUserTable
    \/ GaiaUploadTable
    \/ GaiaUpdateUserTable
    \/ GaiaCrossMatchRun
    \/ GaiaLaunchJob
    \/ ReRunLogin

SpecGaia == GaiaInit /\ [][GaiaNext]_vars /\ WF_vars(GaiaRun)

\* !pytest and !ls: nothing the later cells depend on changes.
NbShellOther ==
    /\ AtStmt(nb)
    /\ Cur(nb).kind = "shell"
    /\ Cur(nb).table \in {"pytest", "ls"}
    /\ nb' = Advance(nb)
    /\ UNCHANGED <<kepler, thiele, pred, mass, fit, prof, pipe, plot>>

\* !fit_orbit --output-dir orvara/tests/chains config: the command writes
\* the MCMC chain or fails; the cell ends either way.
OrvaraFitOrbit ==
    /\ AtStmt(nb)
    /\ Cur(nb).kind = "shell"
    /\ Cur(nb).table = "fit_orbit"
    /\ \E ok \in BOOLEAN :
          nb' = Advance(Logged([nb EXCEPT !.files =
                                   IF ok THEN @ \cup {"chain"} ELSE @],
                               "fit_orbit", <<>>, {}, ok))
    /\ UNCHANGED <<kepler, thiele, pred, mass, fit, prof, pipe, plot>>

\* The reader feeds the chain to McmcDataFile= in the config file.
OrvaraEditConfig ==
    /\ nb.status = "running"
    /\ nb.book = "orvara"
    /\ "chain" \in nb.files
    /\ ~nb.config
    /\ nb' = [nb EXCEPT !.config = TRUE]
    /\ UNCHANGED <<kepler, thiele, pred, mass, fit, prof, pipe, plot>>

\* !plot_orbit --output-dir orvara/tests/plots/ config: with the chain the
\* config file points to, the command writes the plots and the beststep
\* and posterior parameter files; without it the command fails.  The cell
\* ends either way.
OrvaraPlotOrbit ==
    /\ AtStmt(nb)
    /\ Cur(nb).kind = "shell"
    /\ Cur(nb).table = "plot_orbit"
    /\ LET ok == "chain" \in nb.files /\ nb.config
       IN  nb' = Advance(Logged([nb EXCEPT !.files =
                                    IF ok THEN @ \cup {"beststep", "posterior"}
                                    ELSE @],
                                "plot_orbit", <<>>, {}, ok))
    /\ UNCHANGED <<kepler, thiele, pred, mass, fit, prof, pipe, plot>>

\* display_file(path): the file is read, or FileNotFoundError is raised.
OrvaraDisplayFile ==
    /\ AtStmt(nb)
    /\ Cur(nb).kind = "display"
    /\ Cur(nb).reads \subseteq nb.names
    /\ nb' = IF Cur(nb).table \in nb.files
             THEN Advance(Logged(nb, "display", <<>>, {Cur(nb).table}, TRUE))
             ELSE Raise(Logged(nb, "display", <<>>, {Cur(nb).table}, FALSE),
                        "FileNotFoundError")
    /\ UNCHANGED <<kepler, thiele, pred, mass, fit, prof, pipe, plot>>

\* A fresh working directory, or one holding the chain of an earlier fit,
\* with or without McmcDataFile set to it.
OrvaraInit ==
    /\ nb \in { [NbStart("orvara", reader, {}, {}, files) EXCEPT
                     !.config = c /\ files # {}] :
                  reader \in BOOLEAN, files \in {{}, {"chain"}},
                  c \in BOOLEAN }
    /\ kepler = Idle
    /\ thiele = Idle
    /\ pred = Idle
    /\ mass = Idle
    /\ fit = Idle
    /\ prof = Idle
    /\ pipe = Idle
    /\ plot = Idle

OrvaraNext ==
    \/ NbNameError
    \/ NbPython
    \/ NbFinish
    \/ NbShellOther
    \/ OrvaraFitOrbit
    \/ OrvaraEditConfig
    \/ OrvaraPlotOrbit
    \/ OrvaraDisplayFile

SpecOrvara == OrvaraInit /\ [][OrvaraNext]_vars

SpecNotebooks ==
    (GaiaInit \/ OrvaraInit) /\ [][GaiaNext \/ OrvaraNext]_vars

\* The archive operations on user tables.
UserTableOps == {"delete", "upload", "flag", "xmatch", "query"}

\* Entry i of the record is preceded by a successful operation op on table.
Before(i, op, table) ==
    \E j \in 1..(i - 1) :
        nb.log[j].op = op /\ nb.log[j].ok /\ nb.log[j].table = table

\* A user-table operation was refused for lack of a session.
Refused == nb.status = "error" /\ nb.reason = "no_session"

\* The latest archive operation is statement k of cell c, made in a session
\* of the user.
Retried(c, k) ==
    /\ nb.log # <<>>
    /\ nb.log[Len(nb.log)].cell = c
    /\ nb.log[Len(nb.log)].stmt = k
    /\ nb.log[Len(nb.log)].session = ArchiveUser

\* C22: Gaia.login precedes the first user-table operation, every user-table
\* operation that takes place does so in a session of the user, and after an
\* automatic logout re-running the login cell is enough: the operation that
\* was refused for lack of a session is then made in one.
C22_LoggedIn ==
    /\ [](nb.book = "gaia" =>
            \A i \in DOMAIN nb.log :
                nb.log[i].op \in UserTableOps =>
                    /\ \E j \in 1..(i - 1) : nb.log[j].op = "login"
                    /\ nb.log[i].ok => nb.log[i].session = ArchiveUser
                    /\ nb.log[i].session = "none" => ~nb.log[i].ok)
    /\ \A c \in DOMAIN GaiaCells :
          \A k \in DOMAIN GaiaCells[c].stmts :
              (Refused /\ nb.cell = c /\ nb.stmt = k) ~> Retried(c, k)

\* The position of a cell in the Gaia notebook.
GaiaIndex(c) == CHOOSE i \in DOMAIN GaiaCells : GaiaCells[i].id = c.id

\* C23: from any set of left-over user tables, once the cleanup cell is
\* behind none of the three tables exists, and no later upload_table or
\* cross_match fails because a table already exists.
C23_Restartable ==
    nb.book = "gaia" =>
        /\ nb.reason # "exists"
        /\ (nb.cell = GaiaIndex(GaiaUpload) /\ nb.stmt = 1 /\ nb.status = "running")
              => nb.tables = {}

\* C24: exoplanet_archive is uploaded before anything refers to it, its ra
\* and dec are flagged before cross_match runs, and the join query reads
\* user_<username>.exoplanets_gaia only after cross_match has created it
\* under that name in the schema of the user the upload went to.
C24_CrossMatchOrder ==
    nb.book = "gaia" =>
        \A i \in DOMAIN nb.log :
            LET e == nb.log[i]
                archive == <<ArchiveUser, "exoplanet_archive">>
                matches == <<ArchiveUser, "exoplanets_gaia">>
            IN  /\ (e.op = "flag" /\ e.table = archive) => Before(i, "upload", archive)
                /\ e.op = "xmatch" =>
                      /\ e.reads = {archive}
                      /\ Before(i, "upload", archive)
                      /\ Before(i, "flag", archive)
                      /\ e.ok => e.table = matches
                /\ (e.op = "query" /\ e.cell = GaiaIndex(GaiaJoin)) =>
                      /\ e.reads = {archive, matches}
                      /\ Before(i, "upload", archive)
                      /\ Before(i, "xmatch", matches)

C24_Witness ==
    /\ nb.book = "gaia"
    /\ "exo_gaia_table" \in nb.names
    /\ \E i \in DOMAIN nb.log :
          /\ nb.log[i].op = "query" /\ nb.log[i].ok
          /\ <<ArchiveUser, "exoplanets_gaia">> \in nb.log[i].reads

\* C29: with the provided cells only, run top to bottom, no cell reads a
\* name that no earlier cell has defined.
C29_NamesDefined == ~nb.reader => nb.reason # "NameError"

\* Entry i of the record is preceded by a run of the command op.
Invoked(i, op) == \E j \in 1..(i - 1) : nb.log[j].op = op

\* The commands in their order: plot_orbit after fit_orbit, the display of a
\* result file after plot_orbit.
CommandOrder ==
    \A i \in DOMAIN nb.log :
        /\ nb.log[i].op = "plot_orbit" => Invoked(i, "fit_orbit")
        /\ nb.log[i].op = "display" => Invoked(i, "plot_orbit")

-----------------------------------------------------------------------------
(* plot_epoch_phot: the light curves of the three Gaia bands               *)

\* A float: NaN, or the finite value x as <<x>>.
NaN == <<>>

isnan(x) == x = NaN

\* The photometric bands of the three panels, top to bottom.
gbands == <<"G", "BP", "RP">>

\* Bands a row of the table can carry.
Bands == {"G", "BP", "RP", "V"}

\* Times of a row: NaN (no valid transit) or a date.
Times == {NaN, <<1750>>}

\* The rows a table is made of.
PhotRows == [band : Bands, time : Times]

\* Matplotlib colours; the default argument is the first three.
ColourCycle == <<"C2", "C0", "C3", "C1", "C4", "C5">>

\* The call plot_epoch_phot(inp_table, colours).
PlotCall(inp_table, colours) ==
    [inp_table |-> inp_table, colours |-> colours, status |-> "called",
     next |-> 1, axes |-> <<>>, raised |-> "none", source_id |-> <<>>]

PlotInit ==
    /\ plot \in { PlotCall(tab, SubSeq(ColourCycle, 1, n)) :
                    tab \in {<<>>} \cup SeqsUpTo(PhotRows, MaxRows),
                    n \in 0..MaxColours }
    /\ kepler = Idle
    /\ thiele = Idle
    /\ pred = Idle
    /\ mass = Idle
    /\ fit = Idle
    /\ prof = Idle
    /\ pipe = Idle
    /\ nb = Idle

\* The figure with its three empty panels, the iterator over the colours,
\* and source_id from the first row.
PlotSetup ==
    /\ plot.status = "called"
    /\ plot' = IF plot.inp_table = <<>>
               THEN [plot EXCEPT !.status = "raised", !.raised = "IndexError"]
               ELSE [plot EXCEPT !.status = "looping", !.source_id = <<1>>]
    /\ UNCHANGED <<kepler, thiele, pred, mass, fit, prof, pipe, nb>>

\* phot_set: the rows of the band.
PhotSet(inp_table, band) == { r \in DOMAIN inp_table : inp_table[r].band = band }

\* Slip: the rows without a time are not left out.
ValidRowsUnchecked(inp_table, set) == set

\* The rows of phot_set with a time.
ValidRows(inp_table, set) == { r \in set : ~isnan(inp_table[r].time) }

\* One turn of the loop over the bands and their panels: the rows of the
\* band with a time are drawn in the next colour.
PlotBand ==
    /\ plot.status = "looping"
    /\ Len(plot.axes) < Len(gbands)
    /\ LET band == gbands[Len(plot.axes) + 1]
           rows == ValidRows(plot.inp_table, PhotSet(plot.inp_table, band))
       IN  plot' = IF plot.next > Len(plot.colours)
                   THEN [plot EXCEPT !.status = "raised", !.raised = "StopIteration"]
                   ELSE [plot EXCEPT
                           !.axes = Append(@, [label |-> band, rows |-> rows,
                                               color |-> plot.colours[plot.next]]),
                           !.next = @ + 1]
    /\ UNCHANGED <<kepler, thiele, pred, mass, fit, prof, pipe, nb>>

\* After the loop: axis labels, legend, title, plt.show().
PlotShow ==
    /\ plot.status = "looping"
    /\ Len(plot.axes) = Len(gbands)
    /\ plot' = [plot EXCEPT !.status = "shown"]
    /\ UNCHANGED <<kepler, thiele, pred, mass, fit, prof, pipe, nb>>

PlotNext == PlotSetup \/ PlotBand \/ PlotShow

SpecPlot == PlotInit /\ [][PlotNext]_vars

\* C30: the panels drawn are those of G, BP, RP in this order, each in the
\* colour at its position in colours; a row is drawn in the panel of its own
\* band if it has a time, and in no other; rows without a time or of another
\* band are drawn in none; the call does not complete on an empty table or
\* with fewer than three colours.
C30_Panels ==
    /\ plot.status # "called" =>
          /\ Len(plot.axes) <= 3
          /\ \A i \in DOMAIN plot.axes :
                /\ plot.axes[i].label = gbands[i]
                /\ plot.axes[i].color = plot.colours[i]
                /\ \A r \in DOMAIN plot.inp_table :
                      r \in plot.axes[i].rows <=>
                          /\ plot.inp_table[r].band = gbands[i]
                          /\ ~isnan(plot.inp_table[r].time)
    /\ plot.status = "shown" => Len(plot.axes) = 3
    /\ (plot.inp_table = <<>> \/ Len(plot.colours) < 3) => plot.status # "shown"

C30_Witness ==
    /\ plot.status = "shown"
    /\ plot.colours = <<"C2", "C0", "C3">>
    /\ plot.inp_table = <<[band |-> "G", time |-> <<1750>>],
                          [band |-> "RP", time |-> NaN],
                          [band |-> "V", time |-> <<1750>>]>>
    /\ plot.axes[1].rows = {1}
    /\ plot.axes[2].rows = {}
    /\ plot.axes[3].rows = {}

-----------------------------------------------------------------------------
(* From an epoch to the eccentric anomaly                                  *)

\* Epochs, times of periastron (before, between and after the epochs, and
\* whole periods away from them) and periods.
Epochs == { ObsT(j) : j \in 1..NumObs } \cup {0}

PeriTimes == { (k * Scale) \div 2 : k \in -4..4 }

Periods == {Scale \div 2, 2 * Scale, 3 * Scale, 5 * Scale}

AnomalyInit ==
    /\ kepler \in { [status |-> "epoch", t |-> t, t_peri |-> tp, T |-> T, e |-> e,
                      max_iter |-> b] :
                     t \in Epochs, tp \in PeriTimes, T \in Periods,
                     e \in {0, (6 * Scale) \div 10, EMax}, b \in {1, max_iter} }
    /\ thiele = Idle
    /\ pred = Idle
    /\ mass = Idle
    /\ fit = Idle
    /\ prof = Idle
    /\ pipe = Idle
    /\ nb = Idle
    /\ plot = Idle

\* The mean anomaly of the epoch is computed and handed to solve_kepler.
KeplerFromEpoch ==
    /\ kepler.status = "epoch"
    /\ kepler' = [t |-> kepler.t, t_peri |-> kepler.t_peri, T |-> kepler.T]
                  @@ KeplerCall(MeanAnomaly(kepler.t, kepler.t_peri, kepler.T),
                                kepler.e, kepler.max_iter)
    /\ UNCHANGED <<thiele, pred, mass, fit, prof, pipe, nb, plot>>

AnomalyNext == KeplerFromEpoch \/ SolveKeplerIterate \/ SolveKeplerGiveUp

SpecAnomaly == AnomalyInit /\ [][AnomalyNext]_vars

\* C18: the mean anomaly the Newton iteration works on satisfies
\* 0 <= M < 2 pi and differs from the phase 2 pi (t - t_peri)/T by a whole
\* number of turns, for epochs before and after periastron.
C18_MeanAnomalyRange ==
    kepler.status \in {"iterating", "converged", "failed"} =>
        /\ 0 <= kepler.M
        /\ kepler.M < TwoPi
        /\ (kepler.M - FloorDiv(TwoPi * (kepler.t - kepler.t_peri), kepler.T)) % TwoPi = 0

C18_Witness ==
    /\ kepler.status = "converged"
    /\ kepler.t < kepler.t_peri
    /\ FloorDiv(TwoPi * (kepler.t - kepler.t_peri), kepler.T) < -TwoPi
    /\ kepler.M > 0
    /\ kepler.e > 0

-----------------------------------------------------------------------------
(* Properties of solve_kepler                                              *)

\* C1: a value is returned only by a converged run (last |E_{n+1} - E_n| below
\* tol); a run that spends its budget with the last step still >= tol ends
\* "failed" and returns nothing, so failure is never mistaken for a result.
C1_NoStaleEstimate ==
    /\ kepler.ret # <<>> =>
          /\ kepler.status = "converged"
          /\ Abs(kepler.step) < tol
          /\ kepler.ret = <<kepler.E>>
    /\ kepler.status = "failed" =>
          /\ kepler.ret = <<>>
          /\ kepler.n = kepler.max_iter
          /\ Abs(kepler.step) >= tol
    /\ kepler.status = "converged" => kepler.ret # <<>>

C1_Witness ==
    /\ kepler.status = "failed"
    /\ kepler.n = kepler.max_iter
    /\ Abs(kepler.step) >= tol

\* C2: the loop makes at most max_iter updates and every run ends, either
\* converged or failed.
C2_Terminates ==
    /\ [](kepler.n <= kepler.max_iter)
    /\ <>(kepler.status \in {"converged", "failed"})

C2_Witness ==
    /\ kepler.max_iter = max_iter
    /\ kepler.status = "converged"
    /\ kepler.n > 1

\* E - e sin E, the left-hand side of Kepler's equation.
MeanAnomalyOf(E, e) == E - FloorDiv(e * Sin(E), Scale)

\* C3: for e in [0, 0.99] and M in [0, 2 pi), a returned E reproduces M:
\* |E - e sin E - M| <= tol.
C3_RoundTrip ==
    kepler.status = "converged" =>
        Abs(MeanAnomalyOf(kepler.ret[1], kepler.e) - kepler.M) <= tol

C3_Witness ==
    /\ kepler.status = "converged"
    /\ kepler.e = EMax
    /\ kepler.n > 1
    /\ kepler.M # 0

\* C4: at e = 0 the initial guess is M, the first update leaves E unchanged,
\* and the run converges on that first step returning exactly M.
C4_CircularExact ==
    kepler.e = 0 =>
        /\ kepler.E = kepler.M
        /\ kepler.n <= 1
        /\ kepler.n = 1 =>
              /\ kepler.status = "converged"
              /\ kepler.step = 0
              /\ kepler.ret = <<kepler.M>>

C4_Witness ==
    /\ kepler.e = 0
    /\ kepler.M # 0
    /\ kepler.status = "converged"
    /\ kepler.ret = <<kepler.M>>

=============================================================================
